---- MODULE Spec2Model ----
(***************************************************************************)
(* Collaborative Task Manager, browser client.                             *)
(*                                                                         *)
(* These parts of the client are modelled from the source:                 *)
(*   - the Task View Model, the useTasks hook (src/src/hooks/useTasks.js): *)
(*     the local task collection, its loads from the REST service and the  *)
(*     three socket handlers that patch it;                                *)
(*   - the Change Notification Channel, the socket module                  *)
(*     (src/src/lib/apiClient.js, lines 174-314): the module-level socket  *)
(*     variable, initSocket, closeSocket, the emit and the on functions.   *)
(*                                                                         *)
(* Spec        is the state machine of the Task View Model.                *)
(* SpecPatch   is its three socket handlers alone, applied to every        *)
(*             collection the hook can hold.                               *)
(* SpecLoadBase is Spec with the collection at the start of a load         *)
(*             recorded in `loadBase`.                                     *)
(* SpecChannel is the state machine of the channel.                        *)
(* SpecComponents is the task item, the task form and the register and     *)
(*             login pages (TaskItem.js, TaskForm.js, register.js,         *)
(*             unnamed/part_000) with the validation they use.             *)
(* SpecSession is useAuth and the Home page: mount and unmount, the        *)
(*             authentication probe, logout, and the inbound events.       *)
(* SpecOverdue is the overdue derivation of the task item and of Home.     *)
(* `last`, `patch` and `loadBase` are history variables: they record the   *)
(* handler that ran last, what it was given and what it did; the program   *)
(* reads none of them.                                                     *)
(***************************************************************************)
EXTENDS Integers, Sequences, FiniteSets, Bags, TLC

VARIABLES
    tasks,        \* useTasks: const [tasks, setTasks] = useState([])
    isLoading,    \* useTasks: const [isLoading, setIsLoading] = useState(true)
    error,        \* useTasks: const [error, setError] = useState(null)
    options,      \* useTasks: { filter, status, priority, sortBy }
    inflight,     \* the listing requests getTasksData awaits (a bag)
    route,        \* the page the router shows
    transports,   \* the socket.io instances made by io(), by slot
    socket,       \* socket module: let socket = null (0), else a slot
    sessionUser,  \* the userId most recently passed to initSocket (0: none)
    last,         \* history: the handler that ran last and what it did
    patch,        \* history: the input of the last socket handler of the hook
    loadBase,     \* history: the collection when the only load in flight began
    item,         \* TaskItem: isUpdating, isDeleting, showDeleteConfirm, its writes
    form,         \* TaskForm: isLoading, error, the field values, its write
    page,         \* RegisterPage / LoginPage: isLoading, error, its call
    auth,         \* useAuth: user, isAuthenticated, isLoading, probe and logout
    mounted,      \* Home: whether it is mounted, where its handlers were attached
    clock,        \* the time new Date() gives
    rendered,     \* what the last render derived: the overdue flags and count
    notifications, \* useNotifications: const [notifications, setNotifications]
    timers,       \* the pending setTimeout callbacks of useNotifications
    token,        \* localStorage: the item 'token'
    build,        \* which of the two builds of lib/apiClient.js is running
    track         \* history: the requests answered, the task created last

vars == <<tasks, isLoading, error, options, inflight, route,
          transports, socket, sessionUser, last, patch, loadBase,
          item, form, page, auth, mounted, clock, rendered,
          notifications, timers, token, build, track>>

viewVars == <<tasks, isLoading, error, options, inflight, route>>
channelVars == <<transports, socket, sessionUser>>
componentVars == <<item, form, page, clock, rendered>>
renderVars == <<clock, rendered>>
sessionVars == <<auth, mounted>>
noticeVars == <<notifications, timers>>
requestVars == <<token, build>>
auxVars == <<notifications, timers, token, build, track>>

(***************************************************************************)
(* Bounds of the model.                                                    *)
(***************************************************************************)
MaxTasks == 3        \* longest collection a task-created event may extend
MaxResult == 2       \* longest listing the remote side returns
MaxInflight == 2     \* listing requests in flight at once
MaxTransports == 2   \* socket.io instances that exist at once
MaxHandlers == 1     \* callbacks attached per event name and instance
MaxTracked == 2      \* longest collection SpecLoadBase lets an event extend
MaxMounts == 2       \* times the Home page attaches its callbacks to one instance
MaxStale == 1        \* checkAuth calls of earlier mounts awaited at once
MaxClock == 3        \* the clock runs from 0 to MaxClock

(***************************************************************************)
(* Values.                                                                 *)
(***************************************************************************)
Null == "null"             \* JavaScript null (error, response message)
NoValue == "undefined"     \* JavaScript undefined (an option not given)
NoId == 0                  \* the id of a payload that carries none
TaskIds == {1, 2}
UserIds == {1, 2}
StatusValues == {"To Do", "Completed"}

\* A task as the remote side returns it: the full representation.
Tasks == [id : TaskIds, status : StatusValues]

\* What a task-updated event may carry: a full task, a partial one
\* (only the id), or an object with no id.
UpdatePayloads ==
    Tasks \cup [id : TaskIds] \cup [status : {"Completed"}]

RECURSIVE SeqsUpTo(_, _)
SeqsUpTo(S, n) ==
    IF n = 0 THEN {<<>>}
    ELSE LET shorter == SeqsUpTo(S, n - 1)
         IN  shorter \cup {Append(s, x) : s \in {q \in shorter : Len(q) = n - 1}, x \in S}

\* response.data of a listing: { data: [...] } or a body with no data field.
\* The remote store holds one task per identifier.
DistinctIds(seq) == \A i, j \in 1..Len(seq) : seq[i].id = seq[j].id => i = j

ResponseBodies ==
    [hasData : {TRUE}, data : {s \in SeqsUpTo(Tasks, MaxResult) : DistinctIds(s)}]
        \cup [hasData : {FALSE}, data : {<<>>}]

\* A rejected request: err.response.status (0: no response, a transport
\* failure or timeout) and err.response.data.message (Null: none).
ServerMessage == "Server error"
Failures ==
    [status : {500}, message : {Null, ServerMessage}]
        \cup [status : {401}, message : {ServerMessage}]
        \cup [status : {0}, message : {Null}]

Filters == {"all", "assigned", "created", "overdue"}

\* The options the hook is called with.
OptionSet ==
    [filter : Filters, status : {NoValue}, priority : {NoValue}, sortBy : {"dueDate"}]
    \cup [filter : {"all", "assigned"}, status : {"To Do"}, priority : {"High"},
          sortBy : {"dueDate"}]

(***************************************************************************)
(* Remote Store Accessor: taskAPI (src/src/lib/apiClient.js).              *)
(***************************************************************************)
\* getAllTasks: the query string holds the options that are truthy.
getAllTasks(opts) ==
    [endpoint |-> "/api/tasks",
     query |-> {<<k, opts[k]>> : k \in {f \in {"status", "priority", "sortBy"} :
                                          opts[f] # NoValue}}]

getAssignedTasks == [endpoint |-> "/api/tasks/dashboard/assigned", query |-> {}]
getCreatedTasks == [endpoint |-> "/api/tasks/dashboard/created", query |-> {}]
getOverdueTasks == [endpoint |-> "/api/tasks/dashboard/overdue", query |-> {}]

\* Response interceptor of the second build of the API client
\* (task-management-frontend-main): on 401 it sets window.location.href;
\* the first build's interceptor only rejects. Both reject the error.
InterceptorSignals(failure) ==
    {IF failure.status = 401 THEN {"window.location"} ELSE {}, {}}

(***************************************************************************)
(* Task View Model: useTasks.                                              *)
(***************************************************************************)
\* Mutant of FetchCalls: a case of the switch without its break, so that
\* 'assigned' falls through to the next listing as well.
FetchCallsFallThrough(opts) ==
    CASE opts.filter = "assigned" -> SetToBag({getAssignedTasks}) (+) SetToBag({getCreatedTasks})
      [] opts.filter = "created"  -> SetToBag({getCreatedTasks})
      [] opts.filter = "overdue"  -> SetToBag({getOverdueTasks})
      [] OTHER -> SetToBag({getAllTasks(opts)})

\* getTasksData, the switch: the listing calls one invocation makes.
FetchCalls(opts) ==
    CASE opts.filter = "assigned" -> SetToBag({getAssignedTasks})
      [] opts.filter = "created"  -> SetToBag({getCreatedTasks})
      [] opts.filter = "overdue"  -> SetToBag({getOverdueTasks})
      [] OTHER -> SetToBag({getAllTasks(opts)})

IdOf(payload) == IF "id" \in DOMAIN payload THEN payload.id ELSE NoId

HasId(seq, id) == \E i \in 1..Len(seq) : seq[i].id = id

\* { ...task, ...updatedTask }
Merge(task, updatedTask) ==
    [f \in DOMAIN task \cup DOMAIN updatedTask |->
        IF f \in DOMAIN updatedTask THEN updatedTask[f] ELSE task[f]]

\* Mutant of applyUpdate: the event is recorded as a new entry in front of
\* the patched collection.
applyUpdateInsert(prevTasks, updatedTask) ==
    <<updatedTask>> \o
    [i \in 1..Len(prevTasks) |->
        IF prevTasks[i].id = IdOf(updatedTask)
        THEN Merge(prevTasks[i], updatedTask)
        ELSE prevTasks[i]]

\* Mutant of applyUpdate: an update for an unknown id is taken as a create.
applyUpdateUpsert(prevTasks, updatedTask) ==
    IF HasId(prevTasks, IdOf(updatedTask))
    THEN [i \in 1..Len(prevTasks) |->
            IF prevTasks[i].id = IdOf(updatedTask)
            THEN Merge(prevTasks[i], updatedTask)
            ELSE prevTasks[i]]
    ELSE <<updatedTask>> \o prevTasks

\* onTaskUpdated handler: prevTasks.map(...)
applyUpdate(prevTasks, updatedTask) ==
    [i \in 1..Len(prevTasks) |->
        IF prevTasks[i].id = IdOf(updatedTask)
        THEN Merge(prevTasks[i], updatedTask)
        ELSE prevTasks[i]]

\* Mutant of applyCreate: the new task takes the place of the entries that
\* have its id.
applyCreateReplace(prevTasks, newTask) ==
    <<newTask>> \o SelectSeq(prevTasks, LAMBDA t : t.id # newTask.id)

\* Mutant of applyCreate: a task whose id is already held is not inserted.
applyCreateOnce(prevTasks, newTask) ==
    IF HasId(prevTasks, newTask.id) THEN prevTasks ELSE <<newTask>> \o prevTasks

\* onTaskCreated handler: [newTask, ...prevTasks]
applyCreate(prevTasks, newTask) == <<newTask>> \o prevTasks

\* Mutant of applyDelete: only the first matching entry is removed.
applyDeleteFirst(prevTasks, deletedTaskId) ==
    LET hits == {i \in 1..Len(prevTasks) : prevTasks[i].id = deletedTaskId}
    IN  IF hits = {} THEN prevTasks
        ELSE LET first == CHOOSE i \in hits : \A j \in hits : i <= j
             IN  SubSeq(prevTasks, 1, first - 1)
                     \o SubSeq(prevTasks, first + 1, Len(prevTasks))

\* onTaskDeleted handler: prevTasks.filter(...)
applyDelete(prevTasks, deletedTaskId) ==
    SelectSeq(prevTasks, LAMBDA task : task.id # deletedTaskId)

\* response.data?.data || []
ResponseData(body) == IF body.hasData THEN body.data ELSE <<>>

\* err.response?.data?.message || 'Failed to fetch tasks'
ErrorMessage(failure) ==
    IF failure.message # Null THEN failure.message ELSE "Failed to fetch tasks"

\* getTasksData up to its await: setIsLoading(true), setError(null) and the
\* listing call chosen by the filter.
StartLoad(opts) ==
    /\ BagCardinality(inflight) < MaxInflight
    /\ isLoading' = TRUE
    /\ error' = Null
    /\ inflight' = inflight (+) FetchCalls(opts)
    /\ last' = [kind |-> "loadStart", options |-> opts, issued |-> FetchCalls(opts)]

\* The options change (Home: setActiveView): getTasksData is rebuilt and
\* the fetch effect runs it.
ChangeOptions(opts) ==
    /\ route = "/"
    /\ opts # options
    /\ options' = opts
    /\ StartLoad(opts)
    /\ UNCHANGED <<tasks, route>>

\* mutate(): getTasksData again with the current options.
Refresh ==
    /\ route = "/"
    /\ StartLoad(options)
    /\ UNCHANGED <<tasks, options, route>>

\* Mutant of LoadedTasks: the result is added to the collection held.
LoadedTasksAppend(prevTasks, body) == prevTasks \o ResponseData(body)

\* What a resolved listing does to the collection: setTasks(...).
LoadedTasks(prevTasks, body) == ResponseData(body)

\* Mutant of FailedTasks: the collection is emptied when a load fails.
FailedTasksCleared(prevTasks, failure) == <<>>

\* What a rejected listing does to the collection: the catch block sets none.
FailedTasks(prevTasks, failure) == prevTasks

\* finally { setIsLoading(false) }
LoadingAfterLoad(failure) == FALSE

\* The catch block handles every rejection and throws none itself.
CatchRethrows(failure) == FALSE

\* Mutant of RouterSignals: the 401 check is missing.
RouterSignalsNone(failure) == {}

\* if (err.response?.status === 401) router.push('/login')
RouterSignals(failure) == IF failure.status = 401 THEN {"router.push"} ELSE {}

\* Mutant of Accepts: a response is applied only when it answers the
\* listing of the options selected now.
AcceptsCurrentOnly(request, opts) == BagIn(request, FetchCalls(opts))

\* Between the await and setTasks nothing compares the response with the
\* options selected now: every response is applied.
Accepts(request, opts) == TRUE

\* The awaited listing resolves: setTasks(...), finally setIsLoading(false).
LoadSucceeds(request, body) ==
    /\ route = "/"
    /\ BagIn(request, inflight)
    /\ tasks' = IF Accepts(request, options) THEN LoadedTasks(tasks, body) ELSE tasks
    /\ isLoading' = FALSE
    /\ inflight' = inflight (-) SetToBag({request})
    /\ last' = [kind |-> "loadOk", body |-> body,
                dropped |-> \E i \in 1..Len(tasks) :
                               \A j \in 1..Len(ResponseData(body)) :
                                   ResponseData(body)[j] # tasks[i]]
    /\ UNCHANGED <<error, options, route>>

\* The awaited listing rejects: catch (setError, router.push on 401),
\* finally setIsLoading(false). A navigation unmounts the hook: what is
\* still in flight no longer reaches it.
LoadFails(request, failure, signals) ==
    /\ route = "/"
    /\ BagIn(request, inflight)
    /\ signals \in InterceptorSignals(failure)
    /\ tasks' = FailedTasks(tasks, failure)
    /\ error' = ErrorMessage(failure)
    /\ isLoading' = LoadingAfterLoad(failure)
    /\ LET nav == signals \cup RouterSignals(failure)
       IN  /\ route' = IF nav # {} THEN "/login" ELSE route
           /\ inflight' = IF nav # {} THEN EmptyBag
                          ELSE inflight (-) SetToBag({request})
           /\ last' = [kind |-> "loadFail", failure |-> failure, nav |-> nav,
                       escaped |-> CatchRethrows(failure)]
    /\ UNCHANGED options

\* An inbound task-updated event reaches the handler.
OnTaskUpdated(updatedTask) ==
    /\ route = "/"
    /\ tasks' = applyUpdate(tasks, updatedTask)
    /\ last' = [kind |-> "task-updated"]
    /\ UNCHANGED <<isLoading, error, options, inflight, route>>

\* An inbound task-created event reaches the handler.
OnTaskCreated(newTask) ==
    /\ route = "/"
    /\ Len(tasks) < MaxTasks
    /\ tasks' = applyCreate(tasks, newTask)
    /\ last' = [kind |-> "task-created"]
    /\ UNCHANGED <<isLoading, error, options, inflight, route>>

\* An inbound task-deleted event reaches the handler.
OnTaskDeleted(deletedTaskId) ==
    /\ route = "/"
    /\ tasks' = applyDelete(tasks, deletedTaskId)
    /\ last' = [kind |-> "task-deleted"]
    /\ UNCHANGED <<isLoading, error, options, inflight, route>>

\* The dashboard is shown again after a visit to /login: the hook's state is
\* the initial one and the fetch effect runs getTasksData.
Mount(opts) ==
    /\ route = "/login"
    /\ route' = "/"
    /\ tasks' = <<>>
    /\ isLoading' = TRUE
    /\ error' = Null
    /\ options' = opts
    /\ inflight' = FetchCalls(opts)
    /\ last' = [kind |-> "loadStart", options |-> opts, issued |-> FetchCalls(opts)]

(***************************************************************************)
(* Change Notification Channel: the socket module                          *)
(* (src/src/lib/apiClient.js, from line 174).                              *)
(*                                                                         *)
(* An instance made by io() is "connecting" until its connect event,       *)
(* "connected" after it, "reconnecting" after a drop of its transport      *)
(* (reconnection: true), "offline" once its reconnection attempts are used *)
(* up (reconnectionAttempts: 5) and "closed" after disconnect(). An        *)
(* instance that is closed or offline and that the module no longer        *)
(* references does nothing any more: its slot is "none" again.             *)
(***************************************************************************)
InboundEvents ==
    {"task-updated", "task-created", "task-deleted", "assignment-notification"}
OutboundEvents ==
    {"task-updated", "task-created", "task-deleted", "task-assigned"}

NoTransport ==
    [state |-> "none", userId |-> 0, handlers |-> [e \in InboundEvents |-> 0]]

\* io(API_URL, { reconnection: true, ... }); userId is the one the connect
\* handler closes over.
NewTransport(userId) ==
    [state |-> "connecting", userId |-> userId,
     handlers |-> [e \in InboundEvents |-> 0]]

Live(s) == transports[s].state \in {"connecting", "connected", "reconnecting"}

\* socket?.connected
Connected(s) == s # 0 /\ transports[s].state = "connected"

FreeSlots == {s \in 1..MaxTransports : transports[s].state = "none"}

Collect(ts, held) ==
    [s \in DOMAIN ts |->
        IF s # held /\ ts[s].state \in {"closed", "offline"} THEN NoTransport
        ELSE ts[s]]

UserJoin(s, userId) == [on |-> s, event |-> "user-join", arg |-> userId]

\* initSocket(userId)
initSocket(userId) ==
    /\ sessionUser' = userId
    /\ IF Connected(socket)
       THEN /\ UNCHANGED <<transports, socket>>
            /\ last' = [kind |-> "initSocket", created |-> FALSE,
                        emitted |-> <<UserJoin(socket, userId)>>]
       ELSE /\ FreeSlots # {}
            /\ LET s == CHOOSE f \in FreeSlots : \A g \in FreeSlots : f <= g
               IN  /\ socket' = s
                   /\ transports' =
                        Collect([transports EXCEPT ![s] = NewTransport(userId)], s)
            /\ last' = [kind |-> "initSocket", created |-> TRUE, emitted |-> <<>>]

\* Mutant of guardedCall: the function is called on socket without the
\* test, as the connect handler does; on null that throws.
unguardedCall(sock) == [made |-> sock # 0, threw |-> sock = 0]

\* if (socket) { socket.f(...) }: the call is made when the module holds an
\* instance; with socket null nothing is evaluated and nothing throws.
guardedCall(sock) == [made |-> sock # 0, threw |-> FALSE]

\* closeSocket()
closeSocket ==
    /\ IF guardedCall(socket).made
       THEN /\ transports' = Collect([transports EXCEPT ![socket].state = "closed"], 0)
            /\ socket' = 0
       ELSE UNCHANGED <<transports, socket>>
    /\ sessionUser' = 0
    /\ last' = [kind |-> "closeSocket", held |-> socket # 0,
                threw |-> guardedCall(socket).threw]

\* emitTaskUpdated, emitTaskCreated, emitTaskDeleted, emitTaskAssigned:
\* if (socket) socket.emit(event, ...)
Emit(event) ==
    /\ last' = [kind |-> "emit", event |-> event,
                emitted |-> IF guardedCall(socket).made
                            THEN <<[on |-> socket, event |-> event, arg |-> 0]>>
                            ELSE <<>>,
                threw |-> guardedCall(socket).threw]
    /\ UNCHANGED <<transports, socket, sessionUser>>

\* onTaskUpdated, onTaskCreated, onTaskDeleted, onAssignmentNotification:
\* if (socket) socket.on(event, callback); nothing is returned.
Subscribe(event) ==
    /\ IF guardedCall(socket).made
       THEN /\ transports[socket].handlers[event] < MaxHandlers
            /\ transports' = [transports EXCEPT ![socket].handlers[event] = @ + 1]
       ELSE UNCHANGED transports
    /\ last' = [kind |-> "on", event |-> event, registered |-> socket # 0,
                threw |-> guardedCall(socket).threw]
    /\ UNCHANGED <<socket, sessionUser>>

\* The connect event of an instance, first connect or reconnect: the handler
\* runs socket.emit('user-join', userId) on the module's socket, with the
\* userId of its closure; with socket null the call throws.
Connect(s) ==
    /\ transports[s].state \in {"connecting", "reconnecting"}
    /\ transports' = [transports EXCEPT ![s].state = "connected"]
    /\ last' = [kind |-> "connect", transport |-> s,
                reconnect |-> transports[s].state = "reconnecting",
                emitted |-> IF socket # 0
                            THEN <<UserJoin(socket, transports[s].userId)>>
                            ELSE <<>>,
                threw |-> socket = 0]
    /\ UNCHANGED <<socket, sessionUser>>

\* The disconnect event of an instance whose transport dropped: the handler
\* logs; the instance reconnects by itself.
Disconnect(s) ==
    /\ transports[s].state = "connected"
    /\ transports' = [transports EXCEPT ![s].state = "reconnecting"]
    /\ last' = [kind |-> "disconnect", transport |-> s]
    /\ UNCHANGED <<socket, sessionUser>>

\* The reconnection attempts of an instance are used up.
GiveUp(s) ==
    /\ transports[s].state \in {"connecting", "reconnecting"}
    /\ transports' = Collect([transports EXCEPT ![s].state = "offline"], socket)
    /\ last' = [kind |-> "giveUp", transport |-> s]
    /\ UNCHANGED <<socket, sessionUser>>

\* An inbound event arrives on a connected instance: the callbacks attached
\* to it for that event run.
Deliver(s, event) ==
    /\ transports[s].state = "connected"
    /\ last' = [kind |-> "deliver", transport |-> s, event |-> event,
                invoked |-> transports[s].handlers[event]]
    /\ UNCHANGED <<transports, socket, sessionUser>>

(***************************************************************************)
(* Validation (src/src/lib/validation.js).                                 *)
(***************************************************************************)
TitleMax == 100           \* taskSchema: title max(100)
PasswordMin == 6          \* registerSchema: password min(6)
StatusEnum == {"To Do", "In Progress", "Review", "Completed"}
PriorityEnum == {"Low", "Medium", "High", "Urgent"}

\* TaskForm: <option value="">Unassigned</option>, the default of the field.
Unassigned == ""
\* The id of a user offered by the assignee select, a UUID.
UserUuid == "7d9f0c52-3b1a-4e9c-8a55-0f6f2f1f6b11"
\* z.string().uuid(): the strings of the model that are UUIDs.
IsUuid(v) == v = UserUuid
\* z.string().email(): the strings of the model that are e-mail addresses.
IsEmail(v) == v = "ann@example.com"

\* What the task form's fields hold at a submission. The title is given by
\* its length.
FormInputs ==
    [titleLen : {0, 1, TitleMax, TitleMax + 1}, priority : {"Medium"},
     status : {"To Do"}, dueDate : {"", "2030-01-01"},
     assignedToId : {Unassigned, UserUuid}]

\* useForm defaultValues of a form opened to create a task.
DefaultValues ==
    [titleLen |-> 0, priority |-> "Medium", status |-> "To Do", dueDate |-> "",
     assignedToId |-> Unassigned]

\* validate(taskSchema, { ...data, dueDate: data.dueDate ? new Date(...) :
\* undefined }): the paths at which the schema finds an issue. A field is
\* optional() when it may be undefined; the form gives assignedToId as a
\* string, the empty one included.
taskSchemaErrors(data) ==
    (IF data.titleLen < 1 \/ data.titleLen > TitleMax THEN {"title"} ELSE {})
    \cup (IF data.priority \notin PriorityEnum THEN {"priority"} ELSE {})
    \cup (IF data.status \notin StatusEnum THEN {"status"} ELSE {})
    \cup (IF data.assignedToId # NoValue /\ ~IsUuid(data.assignedToId)
          THEN {"assignedToId"} ELSE {})

\* What the register and the login form hold at a submission: the password
\* by its length, the confirmation by how it compares to the password.
AuthInputs ==
    [email : {"", "ann", "ann@example.com"}, name : {"", "Ann"},
     passwordLen : {0, 1, PasswordMin}, confirm : {"", "same", "other"}]

\* validate(registerSchema, data)
registerSchemaErrors(data) ==
    (IF ~IsEmail(data.email) THEN {"email"} ELSE {})
    \cup (IF data.name = "" THEN {"name"} ELSE {})
    \cup (IF data.passwordLen < PasswordMin THEN {"password"} ELSE {})

\* validate(loginSchema, data)
loginSchemaErrors(data) ==
    (IF ~IsEmail(data.email) THEN {"email"} ELSE {})
    \cup (IF data.passwordLen < 1 THEN {"password"} ELSE {})

(***************************************************************************)
(* Task item (task-management-frontend-main/src/components/TaskItem.js).   *)
(* The calls to the emit functions of the channel are recorded in `last`;  *)
(* what the channel does with them is Emit.                                *)
(***************************************************************************)
NoRequest == [api |-> "none"]

\* The task the item shows.
ItemTask == [id |-> 1, status |-> "To Do", priority |-> "Medium"]

\* taskAPI.updateTask(id, data), createTask(data), deleteTask(id)
updateTask(id, data) == [api |-> "updateTask", id |-> id, data |-> data]
createTask(data) == [api |-> "createTask", data |-> data]
deleteTask(id) == [api |-> "deleteTask", id |-> id]

\* response.data.data of a write that succeeded: the task as stored.
WriteResult(request, newId) ==
    CASE request.api = "updateTask" -> Merge([id |-> request.id], request.data)
      [] request.api = "createTask" -> Merge([id |-> newId], request.data)
      [] OTHER -> [id |-> request.id]

Event(name, arg) == [event |-> name, arg |-> arg]

\* Mutant of ItemEmitsOnFailure: the event is emitted whether or not the
\* write succeeded.
ItemEmitsOnFailureAnyway(request) ==
    IF request.api = "deleteTask" THEN <<Event("task-deleted", request.id)>>
    ELSE <<Event("task-updated", [id |-> request.id])>>

\* The catch blocks of the item's handlers: console.error, no emit.
ItemEmitsOnFailure(request) == <<>>

\* handleStatusChange / handlePriorityChange after the await:
\* emitTaskUpdated(response.data?.data); handleDelete: emitTaskDeleted(task.id)
ItemEmits(request, result) ==
    IF request.api = "deleteTask" THEN <<Event("task-deleted", ItemTask.id)>>
    ELSE <<Event("task-updated", result)>>

\* The message a failed status or priority update shows: the catch blocks
\* set no state.
ItemMessageOnFailure(failure) == ""

\* handleStatusChange(newStatus) / handlePriorityChange(newPriority) up to
\* the await. The controls are disabled while isUpdating.
\* Mutant of BusyAfter: the early return is outside the try, the finally
\* block does not run for it and the flag stays set.
BusyAfterReturnStays(outcome) == outcome = "invalid"

\* finally { setIsLoading(false) } / setIsUpdating(false) /
\* setIsDeleting(false): the flag after the handler ended with the outcome
\* "invalid" (return inside the try), "ok" or "fail".
BusyAfter(outcome) == FALSE

ItemChange(field, value) ==
    /\ page.kind = "none"
    /\ ~item.isUpdating
    /\ value # ItemTask[field]
    /\ LET request == updateTask(ItemTask.id, [f \in {field} |-> value])
       IN  /\ item' = [item EXCEPT !.isUpdating = TRUE, !.update = request]
           /\ last' = [kind |-> "itemCall", request |-> request, calls |-> {request},
                       emits |-> <<>>, callbacks |-> {}, message |-> ""]
    /\ UNCHANGED <<form, page, clock, rendered>>

\* The update resolves: emitTaskUpdated, onTaskUpdated?.(), finally.
ItemUpdateSucceeds ==
    /\ item.update # NoRequest
    /\ item' = [item EXCEPT !.isUpdating = BusyAfter("ok"), !.update = NoRequest]
    /\ last' = [kind |-> "itemWriteOk", request |-> item.update, calls |-> {},
                emits |-> ItemEmits(item.update, WriteResult(item.update, 0)),
                callbacks |-> {"onTaskUpdated"}, message |-> ""]
    /\ UNCHANGED <<form, page, clock, rendered>>

\* The update rejects: console.error, finally.
ItemUpdateFails(failure) ==
    /\ item.update # NoRequest
    /\ item' = [item EXCEPT !.isUpdating = BusyAfter("fail"), !.update = NoRequest]
    /\ last' = [kind |-> "itemWriteFail", request |-> item.update, calls |-> {},
                emits |-> ItemEmitsOnFailure(item.update),
                callbacks |-> {}, message |-> ItemMessageOnFailure(failure)]
    /\ UNCHANGED <<form, page, clock, rendered>>

\* The Delete button: setShowDeleteConfirm(true); Cancel: (false).
ItemAskDelete(show) ==
    /\ page.kind = "none"
    /\ item.showDeleteConfirm # show
    /\ item' = [item EXCEPT !.showDeleteConfirm = show]
    /\ last' = [kind |-> "itemConfirm", request |-> NoRequest, calls |-> {},
                emits |-> <<>>, callbacks |-> {}, message |-> ""]
    /\ UNCHANGED <<form, page, clock, rendered>>

\* handleDelete up to the await; Confirm is shown with the dialog and is
\* disabled while isDeleting.
handleDelete ==
    /\ page.kind = "none"
    /\ item.showDeleteConfirm
    /\ ~item.isDeleting
    /\ LET request == deleteTask(ItemTask.id)
       IN  /\ item' = [item EXCEPT !.isDeleting = TRUE, !.delete = request]
           /\ last' = [kind |-> "itemCall", request |-> request, calls |-> {request},
                       emits |-> <<>>, callbacks |-> {}, message |-> ""]
    /\ UNCHANGED <<form, page, clock, rendered>>

\* The delete resolves: emitTaskDeleted, setShowDeleteConfirm(false),
\* onTaskDeleted?.(), finally. The list then shows the item of another task.
ItemDeleteSucceeds ==
    /\ item.delete # NoRequest
    /\ item' = [item EXCEPT !.isDeleting = BusyAfter("ok"), !.delete = NoRequest,
                            !.showDeleteConfirm = FALSE]
    /\ last' = [kind |-> "itemWriteOk", request |-> item.delete, calls |-> {},
                emits |-> ItemEmits(item.delete, WriteResult(item.delete, 0)),
                callbacks |-> {"onTaskDeleted"}, message |-> ""]
    /\ UNCHANGED <<form, page, clock, rendered>>

\* Whether the confirmation is shown after a delete that failed: the catch
\* block leaves showDeleteConfirm as it is.
ConfirmAfterFailedDelete(shown) == shown

\* The delete rejects: console.error, finally.
ItemDeleteFails(failure) ==
    /\ item.delete # NoRequest
    /\ item' = [item EXCEPT !.isDeleting = BusyAfter("fail"), !.delete = NoRequest,
                !.showDeleteConfirm = ConfirmAfterFailedDelete(item.showDeleteConfirm)]
    /\ last' = [kind |-> "itemWriteFail", request |-> item.delete, calls |-> {},
                emits |-> ItemEmitsOnFailure(item.delete),
                callbacks |-> {}, message |-> ""]
    /\ UNCHANGED <<form, page, clock, rendered>>

(***************************************************************************)
(* Task form (src/src/components/TaskForm.js).                             *)
(***************************************************************************)
FormModes == {"create", "edit"}

ClosedForm ==
    [open |-> FALSE, mode |-> "create", values |-> DefaultValues,
     isLoading |-> FALSE, error |-> "", fieldError |-> "", request |-> NoRequest]

\* submitData: { ...validation.data, dueDate: ISO string or null }
submitData(data) ==
    [titleLen |-> data.titleLen, priority |-> data.priority, status |-> data.status,
     assignedToId |-> data.assignedToId,
     dueDate |-> IF data.dueDate # "" THEN data.dueDate ELSE Null]

\* if (initialData) updateTask(initialData.id, submitData) else createTask
FormRequest(mode, data) ==
    IF mode = "edit" THEN updateTask(ItemTask.id, submitData(data))
    ELSE createTask(submitData(data))

\* Mutant of FormCallsWhenInvalid: the return after setError is missing.
FormCallsWhenInvalidGoesOn(mode, data) == {FormRequest(mode, data)}

\* if (!validation.success) { setError('Validation failed'); return; }
FormCallsWhenInvalid(mode, data) == {}

\* onSubmit after the await: emitTaskCreated(response.data?.data) in both
\* branches, and in the create branch emitTaskAssigned when
\* submitData.assignedToId is truthy.
FormEmits(mode, request, result) ==
    <<Event("task-created", result)>> \o
    (IF mode = "create" /\ request.data.assignedToId \notin {"", Null, NoValue}
     THEN <<Event("task-assigned",
                  [assignedToId |-> request.data.assignedToId,
                   taskTitle |-> request.data.titleLen, taskId |-> result.id])>>
     ELSE <<>>)

\* The catch block of onSubmit: setError, no emit.
FormEmitsOnFailure(request) == <<>>

\* err.response?.data?.message || 'Failed to save task'
FormErrorMessage(failure) ==
    IF failure.message # Null THEN failure.message ELSE "Failed to save task"

\* Home: the New Task button (showForm) or handleEditTask(task).
FormOpen(mode) ==
    /\ page.kind = "none"
    /\ ~form.open
    /\ form' = [ClosedForm EXCEPT !.open = TRUE, !.mode = mode]
    /\ last' = [kind |-> "formOpen", request |-> NoRequest, calls |-> {},
                emits |-> <<>>, callbacks |-> {}, message |-> ""]
    /\ UNCHANGED <<item, page, clock, rendered>>

\* handleSubmit(onSubmit)(data): react-hook-form checks the rules given to
\* register() (title: required) and calls onSubmit only when they pass;
\* onSubmit validates against taskSchema and returns when that fails,
\* otherwise it awaits the write. The button is disabled while isLoading.
FormSubmit(data) ==
    /\ form.open
    /\ ~form.isLoading
    /\ LET request == FormRequest(form.mode, data)
       IN  CASE data.titleLen = 0 ->
                  /\ form' = [form EXCEPT !.values = data,
                                          !.fieldError = "Title is required"]
                  /\ last' = [data |-> data, kind |-> "formRejected", request |-> NoRequest,
                              calls |-> {}, emits |-> <<>>, callbacks |-> {},
                              message |-> "Title is required"]
             [] data.titleLen # 0 /\ taskSchemaErrors(data) # {} ->
                  /\ form' = [form EXCEPT !.values = data, !.fieldError = "",
                                          !.error = "Validation failed",
                                          !.isLoading = BusyAfter("invalid")]
                  /\ last' = [data |-> data, kind |-> "formInvalid", request |-> NoRequest,
                              calls |-> FormCallsWhenInvalid(form.mode, data),
                              emits |-> <<>>, callbacks |-> {},
                              message |-> "Validation failed"]
             [] OTHER ->
                  /\ form' = [form EXCEPT !.values = data, !.fieldError = "",
                                          !.error = "", !.isLoading = TRUE,
                                          !.request = request]
                  /\ last' = [data |-> data, kind |-> "formCall", request |-> request,
                              calls |-> {request}, emits |-> <<>>,
                              callbacks |-> {}, message |-> ""]
    /\ UNCHANGED <<item, page, clock, rendered>>

\* The write resolves: the emits, reset(), onTaskCreated?.() (Home's
\* handleTaskCreated closes the form), finally.
FormWriteSucceeds(newId) ==
    /\ form.request # NoRequest
    /\ form' = [ClosedForm EXCEPT !.isLoading = BusyAfter("ok")]
    /\ last' = [kind |-> "formWriteOk", request |-> form.request, calls |-> {},
                emits |-> FormEmits(form.mode, form.request,
                                    WriteResult(form.request, newId)),
                callbacks |-> {"onTaskCreated"}, message |-> ""]
    /\ UNCHANGED <<item, page, clock, rendered>>

\* The write rejects: setError, finally.
FormWriteFails(failure) ==
    /\ form.request # NoRequest
    /\ form' = [form EXCEPT !.isLoading = BusyAfter("fail"), !.request = NoRequest,
                            !.error = FormErrorMessage(failure)]
    /\ last' = [kind |-> "formWriteFail", request |-> form.request, calls |-> {},
                emits |-> FormEmitsOnFailure(form.request), callbacks |-> {},
                message |-> FormErrorMessage(failure)]
    /\ UNCHANGED <<item, page, clock, rendered>>

(***************************************************************************)
(* Register page (src/src/app/register.js) and login page                  *)
(* (src/unnamed/part_000).                                                 *)
(***************************************************************************)
PageKinds == {"register", "login"}

\* page.kind is the page shown: "none" when it is the dashboard, with its
\* task items and its task form.
ShownPage(kind) ==
    [kind |-> kind, isLoading |-> FALSE, error |-> "", fieldError |-> "",
     request |-> NoRequest]

IdleItem ==
    [isUpdating |-> FALSE, isDeleting |-> FALSE, showDeleteConfirm |-> FALSE,
     update |-> NoRequest, delete |-> NoRequest]

\* authAPI.register(email, name, password) / authAPI.login(email, password)
AuthRequest(kind, data) ==
    IF kind = "register"
    THEN [api |-> "register", email |-> data.email, name |-> data.name,
          passwordLen |-> data.passwordLen]
    ELSE [api |-> "login", email |-> data.email, passwordLen |-> data.passwordLen]

\* The fields given to register() with a required rule that are empty.
RequiredMissing(kind, data) ==
    (IF data.email = "" THEN {"email"} ELSE {})
    \cup (IF data.passwordLen = 0 THEN {"password"} ELSE {})
    \cup (IF kind = "register" /\ data.name = "" THEN {"name"} ELSE {})
    \cup (IF kind = "register" /\ data.confirm = "" THEN {"confirmPassword"} ELSE {})

\* onSubmit before the call: the message of the check that fails, "" when
\* none does. Register compares the passwords, then validates.
PageInvalidMessage(kind, data) ==
    CASE kind = "register" /\ data.confirm # "same" -> "Passwords do not match"
      [] kind = "register" /\ data.confirm = "same"
            /\ registerSchemaErrors(data) # {} -> "Please check your input"
      [] kind = "login" /\ loginSchemaErrors(data) # {} -> "Please check your input"
      [] OTHER -> ""

\* err.response?.data?.message || '... failed. Please try again.'
PageErrorMessage(kind, failure) ==
    IF failure.message # Null THEN failure.message
    ELSE IF kind = "register" THEN "Registration failed. Please try again."
    ELSE "Login failed. Please try again."

\* A navigation to the register or the login page, from the other one or
\* from the dashboard when none of its writes is awaited.
PageOpen(kind) ==
    /\ page.request = NoRequest
    /\ page.kind # kind
    /\ item.update = NoRequest /\ item.delete = NoRequest
    /\ form.request = NoRequest
    /\ page' = ShownPage(kind)
    /\ item' = IdleItem
    /\ form' = ClosedForm
    /\ last' = [kind |-> "pageOpen", request |-> NoRequest, calls |-> {},
                emits |-> <<>>, callbacks |-> {}, message |-> ""]
    /\ UNCHANGED <<clock, rendered>>

\* handleSubmit(onSubmit)(data) of the page.
PageSubmit(data) ==
    /\ page.kind \in PageKinds
    /\ ~page.isLoading
    /\ LET request == AuthRequest(page.kind, data)
       IN  CASE RequiredMissing(page.kind, data) # {} ->
                  /\ page' = [page EXCEPT !.fieldError = "required"]
                  /\ last' = [data |-> data, kind |-> "pageRejected", request |-> NoRequest,
                              calls |-> {}, emits |-> <<>>, callbacks |-> {},
                              message |-> "required"]
             [] RequiredMissing(page.kind, data) = {}
                    /\ PageInvalidMessage(page.kind, data) # "" ->
                  /\ page' = [page EXCEPT !.fieldError = "",
                                 !.error = PageInvalidMessage(page.kind, data),
                                 !.isLoading = BusyAfter("invalid")]
                  /\ last' = [data |-> data, kind |-> "pageInvalid", request |-> NoRequest,
                              calls |-> {}, emits |-> <<>>, callbacks |-> {},
                              message |-> PageInvalidMessage(page.kind, data)]
             [] OTHER ->
                  /\ page' = [page EXCEPT !.fieldError = "", !.error = "",
                                          !.isLoading = TRUE, !.request = request]
                  /\ last' = [data |-> data, kind |-> "pageCall", request |-> request,
                              calls |-> {request}, emits |-> <<>>,
                              callbacks |-> {}, message |-> ""]
    /\ UNCHANGED <<item, form, clock, rendered>>

\* The call resolves (201 / 200): router.push('/'), finally. The dashboard
\* is shown.
PageCallSucceeds ==
    /\ page.request # NoRequest
    /\ page' = [ShownPage("none") EXCEPT !.isLoading = BusyAfter("ok")]
    /\ last' = [kind |-> "pageOk", request |-> page.request, calls |-> {},
                emits |-> <<>>, callbacks |-> {"router.push"}, message |-> ""]
    /\ UNCHANGED <<item, form, clock, rendered>>

\* The call rejects: setError, finally.
PageCallFails(failure) ==
    /\ page.request # NoRequest
    /\ page' = [page EXCEPT !.isLoading = BusyAfter("fail"), !.request = NoRequest,
                            !.error = PageErrorMessage(page.kind, failure)]
    /\ last' = [kind |-> "pageFail", request |-> page.request, calls |-> {},
                emits |-> <<>>, callbacks |-> {},
                message |-> PageErrorMessage(page.kind, failure)]
    /\ UNCHANGED <<item, form, clock, rendered>>

(***************************************************************************)
(* Overdue derivation: TaskItem's isOverdue and Home's filterCount.overdue.*)
(* A due date is the instant its ISO string denotes, from 1 to MaxClock,   *)
(* or NoDue for null; new Date() is the clock.                             *)
(***************************************************************************)
NoDue == 0
DueDates == {NoDue} \cup 1..MaxClock

DatedTasks == [id : TaskIds, status : StatusValues, dueDate : DueDates]

\* new Date(task.dueDate) < new Date(): the comparison of the two instants.
DateBefore(dueDate, now) == dueDate < now

\* Mutant of isOverdue: the status is not looked at.
isOverdueAnyStatus(task, now) ==
    task.dueDate # NoDue /\ DateBefore(task.dueDate, now)

\* TaskItem: task.dueDate && new Date(task.dueDate) < new Date()
\*           && task.status !== 'Completed'
isOverdue(task, now) ==
    /\ task.dueDate # NoDue
    /\ DateBefore(task.dueDate, now)
    /\ task.status # "Completed"

\* Home: filterCount.overdue, tasks.filter(t => t.dueDate && new
\* Date(t.dueDate) < new Date() && t.status !== 'Completed').length
filterCountOverdue(ts, now) ==
    Len(SelectSeq(ts, LAMBDA t :
            t.dueDate # NoDue /\ DateBefore(t.dueDate, now)
                /\ t.status # "Completed"))

\* A render of Home and of the task items at time now.
Render(ts, now) ==
    [at |-> now, flags |-> [i \in 1..Len(ts) |-> isOverdue(ts[i], now)],
     overdue |-> filterCountOverdue(ts, now)]

ComponentInit ==
    /\ item = IdleItem
    /\ form = ClosedForm
    /\ page = ShownPage("login")
    /\ clock = 0
    /\ rendered = Render(<<>>, 0)

(***************************************************************************)
(* Session: useAuth (src/src/hooks/useTasks.js, lines 108-168) and the     *)
(* Home page that uses useAuth, useTasks and useNotifications              *)
(* (src/src/app/register.js, from line 248).                               *)
(*                                                                         *)
(* auth.probe is the checkAuth call of the mounted Home, auth.stale counts *)
(* the checkAuth calls of earlier mounts that are still awaited: they no   *)
(* longer set state but still call initSocket.                             *)
(* mounted.attachedTo is the instance the handlers of the mounted Home are *)
(* attached to (0: none); transports[s].handlers counts the callbacks      *)
(* attached to instance s, those of earlier mounts included.               *)
(***************************************************************************)
NoAuth ==
    [user |-> 0, isAuthenticated |-> FALSE, isLoading |-> TRUE,
     probe |-> "none", stale |-> 0, logout |-> "none"]

NotMounted == [on |-> FALSE, attachedTo |-> 0]

SessionInit ==
    /\ auth = NoAuth
    /\ mounted = NotMounted

TaskEvents == {"task-updated", "task-created", "task-deleted"}

\* The listener effects of useTasks and useNotifications: each on function
\* runs socket.on(event, callback) if the module holds an instance.
Attach(ts, s) ==
    IF s = 0 THEN ts
    ELSE [ts EXCEPT ![s].handlers = [e \in InboundEvents |-> @[e] + 1]]

\* The cleanups of the listener effects: unsubscribe?.() with the value the
\* on functions returned, which is undefined; nothing is detached.
Dispose(ts, s) == ts

\* Home mounts: useAuth starts checkAuth, useTasks and useNotifications run
\* their listener effects, the collection is the initial one.
HomeMount ==
    /\ ~mounted.on
    /\ auth.logout # "pending"
    /\ socket # 0 => \A e \in InboundEvents : transports[socket].handlers[e] < MaxMounts
    /\ transports' = Attach(transports, socket)
    /\ mounted' = [on |-> TRUE, attachedTo |-> socket]
    /\ auth' = [NoAuth EXCEPT !.probe = "pending", !.stale = auth.stale]
    /\ tasks' = <<>>
    /\ last' = [kind |-> "mount", registered |-> socket # 0]
    /\ UNCHANGED <<socket, sessionUser>>

\* Home unmounts (a navigation to /login): the cleanups run.
HomeUnmount ==
    /\ mounted.on
    /\ auth.probe = "pending" => auth.stale < MaxStale
    /\ transports' = Dispose(transports, mounted.attachedTo)
    /\ mounted' = NotMounted
    /\ auth' = [auth EXCEPT !.probe = "none",
                            !.stale = IF auth.probe = "pending" THEN @ + 1 ELSE @]
    /\ last' = [kind |-> "unmount"]
    /\ UNCHANGED <<tasks, socket, sessionUser>>

\* checkAuth: response.ok, setUser(data.data), setIsAuthenticated(true),
\* initSocket(data.data.id), finally setIsLoading(false).
ProbeOk(userId) ==
    /\ auth.probe = "pending"
    /\ auth' = [auth EXCEPT !.user = userId, !.isAuthenticated = TRUE,
                            !.isLoading = FALSE, !.probe = "done"]
    /\ initSocket(userId)
    /\ UNCHANGED <<tasks, mounted>>

\* checkAuth: the response is not ok or fetch rejects.
ProbeFails ==
    /\ auth.probe = "pending"
    /\ auth' = [auth EXCEPT !.isAuthenticated = FALSE, !.isLoading = FALSE,
                            !.probe = "done"]
    /\ last' = [kind |-> "probeFail"]
    /\ UNCHANGED <<tasks, mounted, transports, socket, sessionUser>>

\* The checkAuth call of an earlier mount gets its answer.
StaleProbeOk(userId) ==
    /\ auth.stale > 0
    /\ auth' = [auth EXCEPT !.stale = @ - 1]
    /\ initSocket(userId)
    /\ UNCHANGED <<tasks, mounted>>

StaleProbeFails ==
    /\ auth.stale > 0
    /\ auth' = [auth EXCEPT !.stale = @ - 1]
    /\ last' = [kind |-> "probeFail"]
    /\ UNCHANGED <<tasks, mounted, transports, socket, sessionUser>>

\* logout() up to the await of fetch.
LogoutStart ==
    /\ mounted.on
    /\ auth.isAuthenticated
    /\ auth.logout # "pending"
    /\ auth' = [auth EXCEPT !.logout = "pending"]
    /\ last' = [kind |-> "logoutStart"]
    /\ UNCHANGED <<tasks, mounted, transports, socket, sessionUser>>

\* fetch resolves, with any status: closeSocket(), setUser(null),
\* setIsAuthenticated(false), router.push('/login').
LogoutResponds ==
    /\ auth.logout = "pending"
    /\ closeSocket
    /\ auth' = [auth EXCEPT !.user = 0, !.isAuthenticated = FALSE, !.logout = "done"]
    /\ mounted' = [mounted EXCEPT !.attachedTo = IF @ = socket THEN 0 ELSE @]
    /\ UNCHANGED tasks

\* fetch rejects (no response): the catch block logs.
LogoutRejects ==
    /\ auth.logout = "pending"
    /\ auth' = [auth EXCEPT !.logout = "failed"]
    /\ last' = [kind |-> "logoutFail"]
    /\ UNCHANGED <<tasks, mounted, transports, socket, sessionUser>>

\* What the callbacks of the mounted hook do with an inbound event.
ApplyEvent(prevTasks, event, payload) ==
    CASE event = "task-updated" -> applyUpdate(prevTasks, payload)
      [] event = "task-created" -> applyCreate(prevTasks, payload)
      [] event = "task-deleted" -> applyDelete(prevTasks, payload.id)
      [] OTHER -> prevTasks

\* An inbound event arrives on a connected instance: every callback
\* attached to it for the event runs; those of the mounted hook set its
\* collection, those of earlier mounts set the state of hooks that are gone.
DeliverEvent(s, event, payload) ==
    /\ transports[s].state = "connected"
    /\ event = "task-created" => Len(tasks) < MaxTracked
    /\ LET current == mounted.on /\ mounted.attachedTo = s
       IN  /\ tasks' = IF current THEN ApplyEvent(tasks, event, payload) ELSE tasks
           /\ last' = [kind |-> "deliver", transport |-> s, event |-> event,
                       payload |-> payload,
                       invoked |-> transports[s].handlers[event],
                       stale |-> transports[s].handlers[event]
                                    - (IF current THEN 1 ELSE 0)]
    /\ UNCHANGED <<mounted, auth, transports, socket, sessionUser>>

(***************************************************************************)
(* Specification of the Task View Model.                                   *)
(***************************************************************************)
NoPatch == [payload |-> [id |-> NoId], prevTasks |-> <<>>]
NoBase == [valid |-> FALSE, base |-> <<>>]

NoTrack == [kind |-> "none"]

AuxInit ==
    /\ notifications = <<>>
    /\ timers = {}
    /\ token = Null
    /\ build = "src"
    /\ track = NoTrack

ChannelInit ==
    /\ transports = [s \in 1..MaxTransports |-> NoTransport]
    /\ socket = 0
    /\ sessionUser = 0

Init ==
    /\ tasks = <<>>
    /\ isLoading = TRUE
    /\ error = Null
    /\ options \in OptionSet
    /\ inflight = FetchCalls(options)
    /\ route = "/"
    /\ last = [kind |-> "loadStart", options |-> options, issued |-> FetchCalls(options)]
    /\ patch = NoPatch
    /\ loadBase = NoBase
    /\ ChannelInit
    /\ ComponentInit
    /\ SessionInit
    /\ AuxInit

Next ==
    \/ \E opts \in OptionSet : ChangeOptions(opts) /\ UNCHANGED <<channelVars, patch, loadBase, componentVars, sessionVars, auxVars>>
    \/ Refresh /\ UNCHANGED <<channelVars, patch, loadBase, componentVars, sessionVars, auxVars>>
    \/ \E request \in BagToSet(inflight), body \in ResponseBodies :
            LoadSucceeds(request, body) /\ UNCHANGED <<channelVars, patch, loadBase, componentVars, sessionVars, auxVars>>
    \/ \E request \in BagToSet(inflight), failure \in Failures,
          signals \in SUBSET {"window.location"} :
            LoadFails(request, failure, signals) /\ UNCHANGED <<channelVars, patch, loadBase, componentVars, sessionVars, auxVars>>
    \/ \E u \in UpdatePayloads : OnTaskUpdated(u) /\ UNCHANGED <<channelVars, patch, loadBase, componentVars, sessionVars, auxVars>>
    \/ \E t \in Tasks : OnTaskCreated(t) /\ UNCHANGED <<channelVars, patch, loadBase, componentVars, sessionVars, auxVars>>
    \/ \E id \in TaskIds : OnTaskDeleted(id) /\ UNCHANGED <<channelVars, patch, loadBase, componentVars, sessionVars, auxVars>>
    \/ \E opts \in OptionSet : Mount(opts) /\ UNCHANGED <<channelVars, patch, loadBase, componentVars, sessionVars, auxVars>>

Spec == Init /\ [][Next]_vars

(***************************************************************************)
(* Specification of the three socket handlers of the hook, applied to      *)
(* every collection the hook can hold (a listing, extended by task-created *)
(* events), with the input of each handler recorded in `patch`.            *)
(***************************************************************************)
InitPatch ==
    /\ tasks \in {ResponseData(body) : body \in ResponseBodies}
    /\ isLoading = FALSE
    /\ error = Null
    /\ options \in {o \in OptionSet : o.filter = "all" /\ o.status = NoValue}
    /\ inflight = EmptyBag
    /\ route = "/"
    /\ last = [kind |-> "loadOk", body |-> [hasData |-> TRUE, data |-> tasks],
               dropped |-> FALSE]
    /\ patch = NoPatch
    /\ loadBase = NoBase
    /\ ChannelInit
    /\ ComponentInit
    /\ SessionInit
    /\ AuxInit

NextPatch ==
    \/ \E u \in UpdatePayloads :
            /\ OnTaskUpdated(u)
            /\ patch' = [payload |-> u, prevTasks |-> tasks]
            /\ UNCHANGED <<channelVars, loadBase, componentVars, sessionVars, auxVars>>
    \/ \E t \in Tasks :
            /\ OnTaskCreated(t)
            /\ patch' = [payload |-> t, prevTasks |-> tasks]
            /\ UNCHANGED <<channelVars, loadBase, componentVars, sessionVars, auxVars>>
    \/ \E id \in TaskIds :
            /\ OnTaskDeleted(id)
            /\ patch' = [payload |-> [id |-> id], prevTasks |-> tasks]
            /\ UNCHANGED <<channelVars, loadBase, componentVars, sessionVars, auxVars>>

SpecPatch == InitPatch /\ [][NextPatch]_vars

(***************************************************************************)
(* Specification of the Task View Model with the collection at the start   *)
(* of a load recorded: loadBase holds it while that load is the only one   *)
(* in flight. task-created events extend collections shorter than          *)
(* MaxTracked.                                                             *)
(***************************************************************************)
TrackStart ==
    loadBase' = IF inflight = EmptyBag THEN [valid |-> TRUE, base |-> tasks']
                ELSE NoBase

NextLoadBase ==
    \/ \E opts \in OptionSet :
            ChangeOptions(opts) /\ TrackStart /\ UNCHANGED <<channelVars, patch, componentVars, sessionVars, auxVars>>
    \/ Refresh /\ TrackStart /\ UNCHANGED <<channelVars, patch, componentVars, sessionVars, auxVars>>
    \/ \E request \in BagToSet(inflight), body \in ResponseBodies :
            LoadSucceeds(request, body) /\ loadBase' = NoBase
                /\ UNCHANGED <<channelVars, patch, componentVars, sessionVars, auxVars>>
    \/ \E request \in BagToSet(inflight), failure \in Failures,
          signals \in SUBSET {"window.location"} :
            LoadFails(request, failure, signals) /\ loadBase' = NoBase
                /\ UNCHANGED <<channelVars, patch, componentVars, sessionVars, auxVars>>
    \/ \E u \in UpdatePayloads :
            OnTaskUpdated(u) /\ UNCHANGED <<channelVars, patch, loadBase, componentVars, sessionVars, auxVars>>
    \/ \E t \in Tasks :
            OnTaskCreated(t) /\ Len(tasks) < MaxTracked
                /\ UNCHANGED <<channelVars, patch, loadBase, componentVars, sessionVars, auxVars>>
    \/ \E id \in TaskIds :
            OnTaskDeleted(id) /\ UNCHANGED <<channelVars, patch, loadBase, componentVars, sessionVars, auxVars>>
    \/ \E opts \in OptionSet :
            Mount(opts) /\ TrackStart /\ UNCHANGED <<channelVars, patch, componentVars, sessionVars, auxVars>>

InitLoadBase ==
    /\ tasks = <<>>
    /\ isLoading = TRUE
    /\ error = Null
    /\ options \in OptionSet
    /\ inflight = FetchCalls(options)
    /\ route = "/"
    /\ last = [kind |-> "loadStart", options |-> options, issued |-> FetchCalls(options)]
    /\ patch = NoPatch
    /\ loadBase = [valid |-> TRUE, base |-> <<>>]
    /\ ChannelInit
    /\ ComponentInit
    /\ SessionInit
    /\ AuxInit

SpecLoadBase == InitLoadBase /\ [][NextLoadBase]_vars

(***************************************************************************)
(* Specification of the channel: the module's functions called in any      *)
(* order, and the events of the instances. The four emit functions and the *)
(* four on functions have the same code up to the event name; two names of *)
(* each are explored.                                                      *)
(***************************************************************************)
ExploredInbound == {"task-updated", "assignment-notification"}
ExploredOutbound == {"task-updated", "task-assigned"}

InitChannel ==
    /\ tasks = <<>>
    /\ isLoading = TRUE
    /\ error = Null
    /\ options = [filter |-> "all", status |-> NoValue, priority |-> NoValue,
                  sortBy |-> "dueDate"]
    /\ inflight = FetchCalls(options)
    /\ route = "/"
    /\ last = [kind |-> "loadStart", options |-> options, issued |-> FetchCalls(options)]
    /\ patch = NoPatch
    /\ loadBase = NoBase
    /\ ChannelInit
    /\ ComponentInit
    /\ SessionInit
    /\ AuxInit

NextChannel ==
    \/ \E userId \in UserIds : initSocket(userId) /\ UNCHANGED <<viewVars, patch, loadBase, componentVars, sessionVars, auxVars>>
    \/ closeSocket /\ UNCHANGED <<viewVars, patch, loadBase, componentVars, sessionVars, auxVars>>
    \/ \E event \in ExploredOutbound : Emit(event) /\ UNCHANGED <<viewVars, patch, loadBase, componentVars, sessionVars, auxVars>>
    \/ \E event \in ExploredInbound : Subscribe(event) /\ UNCHANGED <<viewVars, patch, loadBase, componentVars, sessionVars, auxVars>>
    \/ \E s \in 1..MaxTransports : Connect(s) /\ UNCHANGED <<viewVars, patch, loadBase, componentVars, sessionVars, auxVars>>
    \/ \E s \in 1..MaxTransports : Disconnect(s) /\ UNCHANGED <<viewVars, patch, loadBase, componentVars, sessionVars, auxVars>>
    \/ \E s \in 1..MaxTransports : GiveUp(s) /\ UNCHANGED <<viewVars, patch, loadBase, componentVars, sessionVars, auxVars>>
    \/ \E s \in 1..MaxTransports, event \in ExploredInbound :
            Deliver(s, event) /\ UNCHANGED <<viewVars, patch, loadBase, componentVars, sessionVars, auxVars>>

SpecChannel == InitChannel /\ [][NextChannel]_vars

(***************************************************************************)
(* Specification of the components: the task item, the task form and the   *)
(* register and login pages, used in any order.                            *)
(***************************************************************************)
NewTaskId == 2

InitComponents == InitChannel

NextComponents ==
    \/ \E field \in {"status"}, value \in StatusValues :
            ItemChange(field, value)
                /\ UNCHANGED <<viewVars, channelVars, patch, loadBase, sessionVars, auxVars>>
    \/ \E field \in {"priority"}, value \in {"Medium", "High"} :
            ItemChange(field, value)
                /\ UNCHANGED <<viewVars, channelVars, patch, loadBase, sessionVars, auxVars>>
    \/ ItemUpdateSucceeds /\ UNCHANGED <<viewVars, channelVars, patch, loadBase, sessionVars, auxVars>>
    \/ \E failure \in Failures :
            ItemUpdateFails(failure)
                /\ UNCHANGED <<viewVars, channelVars, patch, loadBase, sessionVars, auxVars>>
    \/ \E show \in BOOLEAN :
            ItemAskDelete(show)
                /\ UNCHANGED <<viewVars, channelVars, patch, loadBase, sessionVars, auxVars>>
    \/ handleDelete /\ UNCHANGED <<viewVars, channelVars, patch, loadBase, sessionVars, auxVars>>
    \/ ItemDeleteSucceeds /\ UNCHANGED <<viewVars, channelVars, patch, loadBase, sessionVars, auxVars>>
    \/ \E failure \in Failures :
            ItemDeleteFails(failure)
                /\ UNCHANGED <<viewVars, channelVars, patch, loadBase, sessionVars, auxVars>>
    \/ \E mode \in FormModes :
            FormOpen(mode)
                /\ UNCHANGED <<viewVars, channelVars, patch, loadBase, sessionVars, auxVars>>
    \/ \E data \in FormInputs :
            FormSubmit(data)
                /\ UNCHANGED <<viewVars, channelVars, patch, loadBase, sessionVars, auxVars>>
    \/ FormWriteSucceeds(NewTaskId)
            /\ UNCHANGED <<viewVars, channelVars, patch, loadBase, sessionVars, auxVars>>
    \/ \E failure \in Failures :
            FormWriteFails(failure)
                /\ UNCHANGED <<viewVars, channelVars, patch, loadBase, sessionVars, auxVars>>
    \/ \E kind \in PageKinds :
            PageOpen(kind)
                /\ UNCHANGED <<viewVars, channelVars, patch, loadBase, sessionVars, auxVars>>
    \/ \E data \in AuthInputs :
            PageSubmit(data)
                /\ UNCHANGED <<viewVars, channelVars, patch, loadBase, sessionVars, auxVars>>
    \/ PageCallSucceeds /\ UNCHANGED <<viewVars, channelVars, patch, loadBase, sessionVars, auxVars>>
    \/ \E failure \in Failures :
            PageCallFails(failure)
                /\ UNCHANGED <<viewVars, channelVars, patch, loadBase, sessionVars, auxVars>>

SpecComponents == InitComponents /\ [][NextComponents]_vars

(***************************************************************************)
(* Specification of the session: Home mounts and unmounts, its             *)
(* authentication probe opens the channel, logout closes it, and inbound   *)
(* events arrive on the instances.                                         *)
(***************************************************************************)
SessionTask == [id |-> 1, status |-> "To Do"]

\* What the explored inbound events carry.
SessionPayloads(event) ==
    CASE event = "task-updated" -> {[id |-> 1, status |-> "Completed"]}
      [] event = "task-created" -> {SessionTask}
      [] event = "task-deleted" -> {[id |-> 1]}
      [] OTHER -> {[id |-> NoId]}

InitSession == InitChannel

NextSession ==
    \/ HomeMount /\ UNCHANGED <<isLoading, error, options, inflight, route, patch, loadBase, componentVars, auxVars>>
    \/ HomeUnmount /\ UNCHANGED <<isLoading, error, options, inflight, route, patch, loadBase, componentVars, auxVars>>
    \/ \E userId \in UserIds :
            ProbeOk(userId)
                /\ UNCHANGED <<isLoading, error, options, inflight, route, patch, loadBase, componentVars, auxVars>>
    \/ ProbeFails /\ UNCHANGED <<isLoading, error, options, inflight, route, patch, loadBase, componentVars, auxVars>>
    \/ \E userId \in UserIds :
            StaleProbeOk(userId)
                /\ UNCHANGED <<isLoading, error, options, inflight, route, patch, loadBase, componentVars, auxVars>>
    \/ StaleProbeFails /\ UNCHANGED <<isLoading, error, options, inflight, route, patch, loadBase, componentVars, auxVars>>
    \/ LogoutStart /\ UNCHANGED <<isLoading, error, options, inflight, route, patch, loadBase, componentVars, auxVars>>
    \/ LogoutResponds /\ UNCHANGED <<isLoading, error, options, inflight, route, patch, loadBase, componentVars, auxVars>>
    \/ LogoutRejects /\ UNCHANGED <<isLoading, error, options, inflight, route, patch, loadBase, componentVars, auxVars>>
    \/ \E s \in 1..MaxTransports :
            Connect(s) /\ UNCHANGED <<viewVars, patch, loadBase, componentVars, sessionVars, auxVars>>
    \/ \E s \in 1..MaxTransports :
            Disconnect(s) /\ UNCHANGED <<viewVars, patch, loadBase, componentVars, sessionVars, auxVars>>
    \/ \E s \in 1..MaxTransports, event \in InboundEvents :
        \E payload \in SessionPayloads(event) :
            DeliverEvent(s, event, payload)
                /\ UNCHANGED <<isLoading, error, options, inflight, route, patch, loadBase, componentVars, auxVars>>

SpecSession == InitSession /\ [][NextSession]_vars

(***************************************************************************)
(* Specification of the overdue derivation: any collection of tasks with   *)
(* due dates, the clock advancing, and a render after each change of the   *)
(* collection or when something else makes Home render again.              *)
(***************************************************************************)
InitOverdue ==
    /\ tasks \in {s \in SeqsUpTo(DatedTasks, MaxResult) : DistinctIds(s)}
    /\ isLoading = FALSE
    /\ error = Null
    /\ options = [filter |-> "all", status |-> NoValue, priority |-> NoValue,
                  sortBy |-> "dueDate"]
    /\ inflight = EmptyBag
    /\ route = "/"
    /\ last = [kind |-> "loadOk", body |-> [hasData |-> TRUE, data |-> tasks],
               dropped |-> FALSE]
    /\ patch = NoPatch
    /\ loadBase = NoBase
    /\ ChannelInit
    /\ SessionInit
    /\ AuxInit
    /\ item = IdleItem
    /\ form = ClosedForm
    /\ page = ShownPage("login")
    /\ clock = 0
    /\ rendered = Render(tasks, 0)

\* Time passes; nothing renders.
Tick ==
    /\ clock < MaxClock
    /\ clock' = clock + 1
    /\ UNCHANGED <<viewVars, last, rendered>>

\* Home renders again (a notification, a view change): new Date() is read.
RenderAgain ==
    /\ rendered.at # clock
    /\ rendered' = Render(tasks, clock)
    /\ last' = [kind |-> "render"]
    /\ UNCHANGED <<viewVars, clock>>

NextOverdue ==
    \/ Tick /\ UNCHANGED <<channelVars, patch, loadBase, sessionVars, item, form, page, auxVars>>
    \/ RenderAgain /\ UNCHANGED <<channelVars, patch, loadBase, sessionVars, item, form, page, auxVars>>
    \/ \E u \in [id : TaskIds, status : StatusValues] :
            /\ OnTaskUpdated(u)
            /\ rendered' = Render(tasks', clock)
            /\ UNCHANGED <<channelVars, patch, loadBase, sessionVars, item, form, page, clock, auxVars>>
    \/ \E id \in TaskIds :
            /\ OnTaskDeleted(id)
            /\ rendered' = Render(tasks', clock)
            /\ UNCHANGED <<channelVars, patch, loadBase, sessionVars, item, form, page, clock, auxVars>>

SpecOverdue == InitOverdue /\ [][NextOverdue]_vars

(***************************************************************************)
(* Properties of the Task View Model.                                      *)
(***************************************************************************)

\* C1: applying the task-updated handler a second time with the same task
\* changes nothing: after the handler ran with t, the collection applyUpdate
\* gives for t is the collection held (same entries, order and fields); and
\* for every collection the hook holds and every payload, two applications
\* give what one gives.
C1_UpdateIdempotent ==
    /\ last.kind = "task-updated" => applyUpdate(tasks, patch.payload) = tasks
    /\ \A u \in UpdatePayloads :
            applyUpdate(applyUpdate(tasks, u), u) = applyUpdate(tasks, u)

\* The handler ran with a task whose id the collection held and changed it.
C1_Witness ==
    /\ last.kind = "task-updated"
    /\ HasId(patch.prevTasks, IdOf(patch.payload))
    /\ tasks # patch.prevTasks

\* C2: a task-deleted or task-updated event whose id no entry carries leaves
\* the collection as it was; the update adds no entry.
C2_UnknownIdNoOp ==
    (/\ last.kind \in {"task-updated", "task-deleted"}
     /\ ~HasId(patch.prevTasks, IdOf(patch.payload)))
        => tasks = patch.prevTasks

\* A full task with an id the non-empty collection did not hold was given to
\* the task-updated handler.
C2_Witness ==
    /\ last.kind = "task-updated"
    /\ patch.payload \in Tasks
    /\ patch.prevTasks # <<>>
    /\ ~HasId(patch.prevTasks, IdOf(patch.payload))

\* The same for the task-deleted handler.
C2_WitnessDelete ==
    /\ last.kind = "task-deleted"
    /\ patch.prevTasks # <<>>
    /\ ~HasId(patch.prevTasks, IdOf(patch.payload))

\* C3: the task-created handler gives a collection one longer, whose head is
\* the task and whose tail is the collection before, whether or not an entry
\* with the task's id was held.
C3_CreatePrepends ==
    last.kind = "task-created" =>
        /\ Len(tasks) = Len(patch.prevTasks) + 1
        /\ Head(tasks) = patch.payload
        /\ Tail(tasks) = patch.prevTasks

\* The handler ran twice with the same task: two equal entries lead.
C3_Witness ==
    /\ last.kind = "task-created"
    /\ Len(tasks) >= 2
    /\ tasks[1] = patch.payload
    /\ tasks[2] = patch.payload
    /\ Cardinality({i \in 1..Len(tasks) : tasks[i].id = patch.payload.id}) >= 2

\* C4: after the task-deleted handler ran with taskId no entry has that id,
\* and the entries with another id are all there, in their order: the k-th
\* of them is the k-th entry of the collection.
C4_DeleteRemovesAll ==
    last.kind = "task-deleted" =>
        LET id == patch.payload.id
            prev == patch.prevTasks
            kept == {i \in 1..Len(prev) : prev[i].id # id}
        IN  /\ ~HasId(tasks, id)
            /\ Len(tasks) = Cardinality(kept)
            /\ \A i \in kept :
                    LET k == Cardinality({j \in kept : j <= i})
                    IN  k <= Len(tasks) /\ tasks[k] = prev[i]

\* Two entries carried the id and an entry with another id remains.
C4_Witness ==
    /\ last.kind = "task-deleted"
    /\ Cardinality({i \in 1..Len(patch.prevTasks) :
                        patch.prevTasks[i].id = patch.payload.id}) >= 2
    /\ tasks # <<>>

\* C5: one invocation of load issues exactly one listing call, the one of
\* its filter tag: 'all' the task listing with the status, priority and
\* sortBy given, 'assigned', 'created' and 'overdue' their dashboard listing.
C5_OneListingPerLoad ==
    last.kind = "loadStart" =>
        /\ BagCardinality(last.issued) = 1
        /\ \A call \in BagToSet(last.issued) :
            /\ last.options.filter = "all" =>
                /\ call.endpoint = "/api/tasks"
                /\ call.query = {<<k, last.options[k]>> :
                                    k \in {f \in {"status", "priority", "sortBy"} :
                                             last.options[f] # NoValue}}
            /\ last.options.filter = "assigned" =>
                    call.endpoint = "/api/tasks/dashboard/assigned"
            /\ last.options.filter = "created" =>
                    call.endpoint = "/api/tasks/dashboard/created"
            /\ last.options.filter = "overdue" =>
                    call.endpoint = "/api/tasks/dashboard/overdue"
        /\ \A call \in BagToSet(inflight) :
                call.endpoint \in {"/api/tasks", "/api/tasks/dashboard/assigned",
                                   "/api/tasks/dashboard/created",
                                   "/api/tasks/dashboard/overdue"}

\* A load with the 'assigned' tag started while another load was in flight.
C5_Witness ==
    /\ last.kind = "loadStart"
    /\ last.options.filter = "assigned"
    /\ BagCardinality(inflight) = 2

\* C6: after a load succeeded the collection is the remote result, in its
\* order, and nothing else; the empty collection when the response has no
\* data.
C6_LoadReplaces ==
    last.kind = "loadOk" =>
        /\ last.body.hasData => tasks = last.body.data
        /\ ~last.body.hasData => tasks = <<>>

\* The collection held an entry the result does not contain, and the result
\* is not empty.
C6_Witness ==
    /\ last.kind = "loadOk"
    /\ last.dropped
    /\ tasks # <<>>

\* C7 as stated: when a load fails with another status than 401 the
\* collection is the one held when the load started and the error message
\* is set; after a load succeeded the error is cleared.
C7_Original ==
    [][/\ (last'.kind = "loadFail" /\ last'.failure.status # 401) =>
            /\ loadBase.valid => tasks' = loadBase.base
            /\ error' = IF last'.failure.message # Null THEN last'.failure.message
                        ELSE "Failed to fetch tasks"
       /\ last'.kind = "loadOk" => error' = Null]_vars

\* C7 as amended: the failure leaves the collection as it was just before it
\* was handled and sets the error message; the start of a load clears the
\* error and a success leaves the error as it is.
C7_FailedLoadKeepsCollection ==
    [][/\ (last'.kind = "loadFail" /\ last'.failure.status # 401) =>
            /\ tasks' = tasks
            /\ error' = IF last'.failure.message # Null THEN last'.failure.message
                        ELSE "Failed to fetch tasks"
       /\ last'.kind = "loadStart" => error' = Null
       /\ last'.kind = "loadOk" => error' = error]_vars

\* A load failed with no server message while the collection was not empty.
C7_Witness ==
    /\ last.kind = "loadFail"
    /\ last.failure.status # 401
    /\ last.failure.message = Null
    /\ error = "Failed to fetch tasks"
    /\ tasks # <<>>

\* C8: a load that is answered 401 issues a navigation to the login page,
\* lets no rejection out of load, clears the loading flag and leaves the
\* collection as it was.
C8_UnauthorizedLoad ==
    [][(last'.kind = "loadFail" /\ last'.failure.status = 401) =>
            /\ last'.nav # {}
            /\ route' = "/login"
            /\ ~last'.escaped
            /\ isLoading' = FALSE
            /\ tasks' = tasks]_vars

\* A load was answered 401 while the collection was not empty.
C8_Witness ==
    /\ last.kind = "loadFail"
    /\ last.failure.status = 401
    /\ route = "/login"
    /\ tasks # <<>>

(***************************************************************************)
(* Properties of the Change Notification Channel.                          *)
(***************************************************************************)
LiveTransports == {s \in 1..MaxTransports : Live(s)}

\* C9: at most one instance made by initSocket is live (connecting,
\* connected or reconnecting, and not disconnected by closeSocket) at any
\* time; initSocket on a connected instance announces userId on it and makes
\* no instance.
C9_AtMostOneTransport ==
    /\ Cardinality(LiveTransports) <= 1
    /\ (last.kind = "initSocket" /\ ~last.created) =>
            last.emitted = <<UserJoin(socket, sessionUser)>>

\* The part of C9 that holds: initSocket on a connected instance makes none
\* and announces the userId on it.
InitSocketWhileConnected ==
    [][(last'.kind = "initSocket" /\ Connected(socket)) =>
            /\ ~last'.created
            /\ socket' = socket
            /\ transports' = transports
            /\ last'.emitted = <<UserJoin(socket, sessionUser')>>]_vars

\* C10: when the module's instance reconnects, user-join is emitted on it
\* with the session's userId, the one most recently given to initSocket; a
\* disconnect and a connect leave every attached callback attached, and an
\* inbound event on a connected instance runs the callbacks attached to it.
C10_ReconnectReannounces ==
    [][/\ (last'.kind = "connect" /\ last'.reconnect /\ last'.transport = socket) =>
            last'.emitted = <<UserJoin(socket, sessionUser)>>
       /\ last'.kind \in {"connect", "disconnect"} =>
            \A s \in 1..MaxTransports :
                transports'[s].handlers = transports[s].handlers
       /\ last'.kind = "deliver" =>
            last'.invoked = transports[last'.transport].handlers[last'.event]]_vars

\* The part of C10 that holds: the instance that reconnects announces the
\* userId it was made with, and keeps its callbacks, which run for the
\* events that arrive after the reconnect.
ReconnectKeepsHandlers ==
    [][/\ (last'.kind = "connect" /\ last'.reconnect /\ last'.transport = socket) =>
            last'.emitted = <<UserJoin(socket, transports[socket].userId)>>
       /\ last'.kind \in {"connect", "disconnect"} =>
            \A s \in 1..MaxTransports :
                transports'[s].handlers = transports[s].handlers
       /\ last'.kind = "deliver" =>
            last'.invoked = transports[last'.transport].handlers[last'.event]]_vars

\* An event reached a callback on the module's instance after a reconnect.
ReconnectDelivers ==
    /\ last.kind = "deliver"
    /\ last.transport = socket
    /\ last.invoked >= 1

(***************************************************************************)
(* Properties of the components.                                           *)
(***************************************************************************)
WriteApis == {"updateTask", "createTask", "deleteTask"}

\* C11: an outbound event is emitted only by the step in which the write of
\* its handler returned success: every step that emits is the success of an
\* updateTask, createTask or deleteTask call and emits only task-updated,
\* task-created, task-deleted or task-assigned; the step that issues a write
\* and the step in which a write fails emit nothing.
C11_EmitAfterSuccess ==
    "emits" \in DOMAIN last =>
        /\ last.emits # <<>> =>
            /\ last.kind \in {"itemWriteOk", "formWriteOk"}
            /\ last.request.api \in WriteApis
            /\ \A i \in 1..Len(last.emits) : last.emits[i].event \in OutboundEvents
        /\ last.kind \in {"itemCall", "formCall", "itemWriteFail", "formWriteFail"} =>
                last.emits = <<>>
        /\ last.kind \notin {"itemWriteOk", "formWriteOk"} => last.emits = <<>>

\* A createTask with an assignee returned success: task-created and
\* task-assigned were emitted.
C11_Witness ==
    /\ last.kind = "formWriteOk"
    /\ last.request.api = "createTask"
    /\ Len(last.emits) = 2
    /\ last.emits[2].event = "task-assigned"

\* C12: the event emitted after a write describes the write: createTask
\* emits task-created with the created task (and task-assigned when it has
\* an assignee), updateTask emits task-updated with the updated task,
\* deleteTask emits task-deleted with the task's id, and nothing else.
C12_EventDescribesWrite ==
    ("emits" \in DOMAIN last /\ last.kind \in {"itemWriteOk", "formWriteOk"}) =>
        LET result == WriteResult(last.request, NewTaskId)
            others == {i \in 2..Len(last.emits) : last.emits[i].event # "task-assigned"}
        IN  /\ last.emits # <<>>
            /\ others = {}
            /\ last.request.api = "createTask" =>
                    last.emits[1] = Event("task-created", result)
            /\ last.request.api = "updateTask" =>
                    last.emits = <<Event("task-updated", result)>>
            /\ last.request.api = "deleteTask" =>
                    last.emits = <<Event("task-deleted", last.request.id)>>

\* The part of C12 that holds: the events of the task item's writes and of
\* the form's createTask describe the write.
ItemAndCreateEventsDescribeWrite ==
    ("emits" \in DOMAIN last /\ last.kind \in {"itemWriteOk", "formWriteOk"}
        /\ ~(last.kind = "formWriteOk" /\ last.request.api = "updateTask")) =>
        LET result == WriteResult(last.request, NewTaskId)
        IN  /\ last.request.api = "createTask" =>
                /\ last.emits[1] = Event("task-created", result)
                /\ \A i \in 2..Len(last.emits) : last.emits[i].event = "task-assigned"
            /\ last.request.api = "updateTask" =>
                    last.emits = <<Event("task-updated", result)>>
            /\ last.request.api = "deleteTask" =>
                    last.emits = <<Event("task-deleted", last.request.id)>>

(***************************************************************************)
(* Properties of the session.                                              *)
(***************************************************************************)

\* C13: after Home disposed its subscriptions none of its callbacks runs for
\* a later inbound event (an event runs no callback of an earlier mount),
\* and an instance never has more than one callback attached per event
\* name, however often Home mounted and unmounted.
C13_DisposeDetaches ==
    /\ last.kind = "deliver" => last.stale = 0
    /\ \A s \in 1..MaxTransports, e \in InboundEvents :
            transports[s].handlers[e] <= 1

\* Callbacks attached while an instance was held are never detached by an
\* unmount: the number attached to an instance never decreases while the
\* instance exists.
UnmountKeepsHandlers ==
    [][last'.kind = "unmount" => transports' = transports]_vars

\* C14: once the channel is open, every task-updated, task-created and
\* task-deleted event that arrives on the module's instance while Home is
\* mounted is applied to the collection, whichever of the mount and the
\* authentication probe came first.
C14_InboundEventsPatch ==
    [][(/\ last'.kind = "deliver"
        /\ last'.event \in TaskEvents
        /\ last'.transport = socket
        /\ mounted.on) =>
            tasks' = ApplyEvent(tasks, last'.event, last'.payload)]_vars

\* The events are applied when Home mounted while the module held the
\* instance they arrive on.
AttachedEventsPatch ==
    [][(/\ last'.kind = "deliver"
        /\ mounted.on
        /\ mounted.attachedTo = last'.transport) =>
            tasks' = ApplyEvent(tasks, last'.event, last'.payload)]_vars

\* An event was applied to the collection of a Home that mounted on a held
\* instance.
AttachedEventApplied ==
    /\ last.kind = "deliver"
    /\ last.event = "task-created"
    /\ mounted.on
    /\ mounted.attachedTo = last.transport
    /\ tasks # <<>>

\* C15: when logout() finishes, whichever way its request ended, the module
\* holds no instance, the user is none and isAuthenticated is false.
C15_LogoutTearsDown ==
    [][(auth.logout = "pending" /\ auth'.logout \in {"done", "failed"}) =>
            /\ socket' = 0
            /\ auth'.user = 0
            /\ ~auth'.isAuthenticated]_vars

\* The part of C15 that holds: a logout whose request got a response, of
\* any status, closes the channel and clears the user.
AnsweredLogoutTearsDown ==
    [][(auth.logout = "pending" /\ auth'.logout = "done") =>
            /\ socket' = 0
            /\ \A s \in 1..MaxTransports :
                    s = socket => transports'[s].state \in {"none", "closed"}
            /\ auth'.user = 0
            /\ ~auth'.isAuthenticated]_vars

(***************************************************************************)
(* Properties of the components: validation and failed writes.             *)
(***************************************************************************)

\* Whether the client-side validation of the submission recorded in `last`
\* fails: a required field is empty, the schema finds an issue, or, on the
\* register page, the confirmation differs from the password.
SubmissionInvalid ==
    CASE last.kind \in {"formRejected", "formInvalid", "formCall"} ->
            last.data.titleLen = 0 \/ taskSchemaErrors(last.data) # {}
      [] last.kind \in {"pageRejected", "pageInvalid", "pageCall"} ->
            \/ RequiredMissing(page.kind, last.data) # {}
            \/ page.kind = "register" /\ last.data.confirm # "same"
            \/ page.kind = "register" /\ registerSchemaErrors(last.data) # {}
            \/ page.kind = "login" /\ loginSchemaErrors(last.data) # {}
      [] OTHER -> FALSE

\* C16: a submission of the task form, the register form or the login form
\* whose client-side validation fails issues no remote call, emits no
\* event, leaves no call awaited and sets an error message.
C16_ValidationFailsFast ==
    ("data" \in DOMAIN last /\ SubmissionInvalid) =>
        /\ last.calls = {}
        /\ last.emits = <<>>
        /\ last.message # ""
        /\ form.request = NoRequest
        /\ page.request = NoRequest
        /\ last.kind \in {"formRejected", "formInvalid"} =>
                last.message \in {form.error, form.fieldError}
        /\ last.kind \in {"pageRejected", "pageInvalid"} =>
                last.message \in {page.error, page.fieldError}

\* The register form was submitted with a confirmation that differs from
\* the password.
C16_Witness ==
    /\ last.kind = "pageInvalid"
    /\ page.kind = "register"
    /\ last.data.confirm = "other"
    /\ page.error = "Passwords do not match"

\* The task form was submitted with a title longer than the schema allows.
C16_WitnessForm ==
    /\ last.kind = "formInvalid"
    /\ last.data.titleLen > TitleMax
    /\ form.error = "Validation failed"

\* C17: a submission of the form opened to create a task, with a title of 1
\* to 100 characters, a valid priority and status and the assignee left at
\* 'Unassigned', passes validation and issues createTask.
C17_AssigneeOptional ==
    (/\ "data" \in DOMAIN last
     /\ last.kind \in {"formRejected", "formInvalid", "formCall"}
     /\ form.mode = "create"
     /\ last.data.titleLen >= 1 /\ last.data.titleLen <= TitleMax
     /\ last.data.priority \in PriorityEnum
     /\ last.data.status \in StatusEnum
     /\ last.data.assignedToId = Unassigned) =>
        /\ last.kind = "formCall"
        /\ last.calls = {createTask(submitData(last.data))}

\* With an assignee chosen the same submission issues createTask.
AssignedTaskCreates ==
    (/\ "data" \in DOMAIN last
     /\ last.kind \in {"formRejected", "formInvalid", "formCall"}
     /\ form.mode = "create"
     /\ last.data.titleLen >= 1 /\ last.data.titleLen <= TitleMax
     /\ IsUuid(last.data.assignedToId)) =>
        /\ last.kind = "formCall"
        /\ last.calls = {createTask(submitData(last.data))}

\* C18: when deleteTask fails after the user confirmed, the confirmation is
\* not shown any more, isDeleting is false, no task-deleted event is
\* emitted and the deleted callback is not invoked.
C18_FailedDeleteReverts ==
    ("emits" \in DOMAIN last /\ last.kind = "itemWriteFail"
        /\ last.request.api = "deleteTask") =>
        /\ ~item.showDeleteConfirm
        /\ ~item.isDeleting
        /\ last.emits = <<>>
        /\ last.callbacks = {}

\* The part of C18 that holds: isDeleting is false again, nothing is
\* emitted, no callback is invoked, and the confirmation is as it was.
FailedDeleteKeepsConfirm ==
    [][(last'.kind = "itemWriteFail" /\ last'.request.api = "deleteTask") =>
            /\ item'.showDeleteConfirm = item.showDeleteConfirm
            /\ ~item'.isDeleting
            /\ last'.emits = <<>>
            /\ last'.callbacks = {}]_vars

\* C19: when createTask or updateTask fails from the task form an error
\* message is set, the fields keep the submitted values and the form stays
\* open (the completion callback is not invoked); when a status or priority
\* update fails from a task item a message is set as well.
C19_FailedMutationReported ==
    "emits" \in DOMAIN last =>
        /\ last.kind = "formWriteFail" =>
            /\ last.message # ""
            /\ form.error = last.message
            /\ form.open
            /\ submitData(form.values) = last.request.data
            /\ last.callbacks = {}
        /\ (last.kind = "itemWriteFail" /\ last.request.api = "updateTask") =>
                last.message # ""

\* The part of C19 that holds: the task form.
FailedFormWriteReported ==
    ("emits" \in DOMAIN last /\ last.kind = "formWriteFail") =>
        /\ last.message # ""
        /\ form.error = last.message
        /\ form.open
        /\ submitData(form.values) = last.request.data
        /\ last.callbacks = {}

(***************************************************************************)
(* Properties of the overdue derivation.                                   *)
(***************************************************************************)

\* C20: at the time of a render, the isOverdue flag of every task item and
\* the overdue count of the dashboard are those of the predicate "the due
\* date is present, it is before now, and the status is not Completed": a
\* task due in the past is overdue unless Completed, a task due now or
\* later, or with no due date, is not.
C20_OverduePredicate ==
    LET now == rendered.at
        Overdue(t) == t.dueDate # NoDue /\ t.dueDate < now /\ t.status # "Completed"
    IN  /\ Len(rendered.flags) = Len(tasks)
        /\ \A i \in 1..Len(tasks) :
            /\ rendered.flags[i] = Overdue(tasks[i])
            /\ (tasks[i].dueDate = NoDue \/ tasks[i].dueDate >= now) =>
                    ~rendered.flags[i]
            /\ (tasks[i].dueDate # NoDue /\ tasks[i].dueDate < now) =>
                    (rendered.flags[i] <=> tasks[i].status # "Completed")
        /\ rendered.overdue = Cardinality({i \in 1..Len(tasks) : Overdue(tasks[i])})

\* A render found of two tasks due in the past the one that is not
\* Completed overdue, and counted one.
C20_Witness ==
    /\ Len(tasks) = 2
    /\ rendered.at > 0
    /\ \A i \in 1..2 : tasks[i].dueDate # NoDue /\ tasks[i].dueDate < rendered.at
    /\ tasks[1].status = "Completed" /\ ~rendered.flags[1]
    /\ tasks[2].status = "To Do" /\ rendered.flags[2]
    /\ rendered.overdue = 1

(***************************************************************************)
(* Home: the counts on the view buttons (register.js, filterCount).        *)
(* A task here carries its assignee: null (NoUser) or a user.              *)
(***************************************************************************)
NoUser == 0
AssignedTasks == [id : TaskIds, status : StatusValues,
                  assignedTo : {NoUser} \cup UserIds]

\* assigned: tasks.filter(t => t.assignedTo && t.status !== 'Completed').length
filterCountAssigned(ts) ==
    Cardinality({i \in DOMAIN ts :
                    ts[i].assignedTo # NoUser /\ ts[i].status # "Completed"})

\* const filterCount = { all, assigned, created, overdue } of one render.
filterCount(ts) ==
    [all |-> Len(ts), assigned |-> filterCountAssigned(ts), created |-> Len(ts)]

HomeShown(userId) ==
    [NoAuth EXCEPT !.user = userId, !.isAuthenticated = TRUE, !.isLoading = FALSE]

(***************************************************************************)
(* Specification of the counts: Home shown to a signed-in user, holding    *)
(* any collection of tasks with assignees; the task events patch the       *)
(* collection and Home renders after each.                                 *)
(***************************************************************************)
InitCounts ==
    /\ tasks \in {s \in SeqsUpTo(AssignedTasks, MaxResult) : DistinctIds(s)}
    /\ isLoading = FALSE
    /\ error = Null
    /\ options = [filter |-> "all", status |-> NoValue, priority |-> NoValue,
                  sortBy |-> "dueDate"]
    /\ inflight = EmptyBag
    /\ route = "/"
    /\ last = [kind |-> "loadOk", body |-> [hasData |-> TRUE, data |-> tasks],
               dropped |-> FALSE]
    /\ patch = NoPatch
    /\ loadBase = NoBase
    /\ ChannelInit
    /\ AuxInit
    /\ item = IdleItem
    /\ form = ClosedForm
    /\ page = ShownPage("none")
    /\ clock = 0
    /\ mounted = NotMounted
    /\ \E u \in UserIds : auth = HomeShown(u)
    /\ rendered = filterCount(tasks)

NextCounts ==
    \/ \E u \in AssignedTasks :
            /\ OnTaskUpdated(u)
            /\ rendered' = filterCount(tasks')
            /\ UNCHANGED <<channelVars, patch, loadBase, sessionVars, item, form, page, clock, auxVars>>
    \/ \E t \in AssignedTasks :
            /\ OnTaskCreated(t)
            /\ rendered' = filterCount(tasks')
            /\ UNCHANGED <<channelVars, patch, loadBase, sessionVars, item, form, page, clock, auxVars>>
    \/ \E id \in TaskIds :
            /\ OnTaskDeleted(id)
            /\ rendered' = filterCount(tasks')
            /\ UNCHANGED <<channelVars, patch, loadBase, sessionVars, item, form, page, clock, auxVars>>

SpecCounts == InitCounts /\ [][NextCounts]_vars

(***************************************************************************)
(* C21: the 'assigned' count of a render equals the number of entries of   *)
(* the collection that are assigned to the current user and whose status   *)
(* is not Completed; a task assigned to a different user is not counted.   *)
(***************************************************************************)
AssignedToMe(ts, userId) ==
    {i \in DOMAIN ts : ts[i].assignedTo = userId /\ ts[i].status # "Completed"}

C21_AssignedCountIsMine ==
    rendered.assigned = Cardinality(AssignedToMe(tasks, auth.user))

\* What the code does count: the entries with any assignee, not Completed.
AssignedCountIsAnyAssignee ==
    rendered.assigned =
        Cardinality({i \in DOMAIN tasks :
                        tasks[i].assignedTo # NoUser /\ tasks[i].status # "Completed"})

(***************************************************************************)
(* useNotifications (useTasks.js, lines 174-212) and the Notification      *)
(* component of Home (register.js).                                        *)
(* Math.random().toString(36).substr(2, 9) is modelled as an id no         *)
(* pending timer holds: two live notifications never share an id.          *)
(***************************************************************************)
MaxNotices == 3
NoticeIds == 1..MaxNotices
NoticeTypes == {"info", "error"}

\* What an assignment-notification event carries: a message, with or
\* without a type.
NoticePayloads == [message : {"assigned"}] \cup
                  [message : {"assigned"}, type : NoticeTypes]

\* { id, ...notification }
Stamp(id, notification) ==
    [f \in {"id"} \cup DOMAIN notification |->
        IF f = "id" THEN id ELSE notification[f]]

NoticeIdsOf(list) == {list[i].id : i \in DOMAIN list}

\* Mutant of removeById: the oldest entry goes, whatever its id.
removeByIdHead(prev, id) ==
    IF prev = <<>> THEN prev ELSE Tail(prev)

\* prev.filter((n) => n.id !== id)
removeById(prev, id) ==
    SelectSeq(prev, LAMBDA n : n.id # id)

\* The callback given to onAssignmentNotification runs.
OnAssignmentNotification(id, notification) ==
    /\ id \notin timers
    /\ notifications' = <<Stamp(id, notification)>> \o notifications
    /\ timers' = timers \cup {id}
    /\ last' = [kind |-> "assignment-notification", id |-> id]

\* addNotification(message, type = 'info')
addNotification(id, message, type) ==
    /\ id \notin timers
    /\ notifications' = Append(notifications,
                               [id |-> id, message |-> message, type |-> type])
    /\ timers' = timers \cup {id}
    /\ last' = [kind |-> "addNotification", id |-> id]

\* removeNotification(id): the onClose of the Notification component (its
\* own 5 second timer) or any other caller.
removeNotification(id) ==
    /\ notifications' = removeById(notifications, id)
    /\ last' = [kind |-> "removeNotification", id |-> id,
                listed |-> id \in NoticeIdsOf(notifications)]
    /\ UNCHANGED timers

\* The setTimeout callback of the notification with this id fires.
Expire(id) ==
    /\ id \in timers
    /\ timers' = timers \ {id}
    /\ notifications' = removeById(notifications, id)
    /\ last' = [kind |-> "expire", id |-> id,
                listed |-> id \in NoticeIdsOf(notifications)]

(***************************************************************************)
(* Specification of the notifications: a browser runs every timer it was   *)
(* given, hence the weak fairness of Expire.                               *)
(***************************************************************************)
noticeRest == <<viewVars, channelVars, patch, loadBase, componentVars,
                sessionVars, requestVars, track>>

InitNotices == InitChannel

NextNotices ==
    \/ \E id \in NoticeIds, n \in NoticePayloads :
            OnAssignmentNotification(id, n) /\ UNCHANGED noticeRest
    \/ \E id \in NoticeIds, type \in NoticeTypes :
            addNotification(id, "saved", type) /\ UNCHANGED noticeRest
    \/ \E id \in NoticeIds : removeNotification(id) /\ UNCHANGED noticeRest
    \/ \E id \in NoticeIds : Expire(id) /\ UNCHANGED noticeRest

SpecNotices ==
    /\ InitNotices
    /\ [][NextNotices]_vars
    /\ \A id \in NoticeIds : WF_vars(Expire(id) /\ UNCHANGED noticeRest)

(***************************************************************************)
(* C22: every notification is eventually destroyed: each notification in   *)
(* the list has its expiry timer pending and is eventually no longer in    *)
(* the list; a removal by id (removeNotification or the expiry) removes    *)
(* the one entry with that id and leaves the others in their order, and    *)
(* an expiry or removal of an id that is not listed changes nothing.       *)
(***************************************************************************)
\* list with the entry at position k taken out
Without(list, k) == SubSeq(list, 1, k - 1) \o SubSeq(list, k + 1, Len(list))

RemovalTakesOne ==
    (last'.kind \in {"removeNotification", "expire"}) =>
        IF last'.listed
        THEN \E k \in DOMAIN notifications :
                /\ notifications[k].id = last'.id
                /\ notifications' = Without(notifications, k)
                /\ last'.id \notin NoticeIdsOf(notifications')
        ELSE notifications' = notifications

Builds == {"src", "task-management-frontend-main"}
Tokens == {Null, "jwt"}
NoHeaders == [Authorization |-> Null]

\* The calls of authAPI, userAPI and taskAPI; each goes through apiClient.
authAPICalls ==
    {AuthRequest(kind, data) : kind \in {"register", "login"}, data \in AuthInputs}
    \cup {[api |-> "logout"]}
userAPICalls ==
    {[api |-> "getCurrentUser"], [api |-> "getAllUsers"],
     [api |-> "updateProfile", data |-> [name |-> "Ann"]]}
taskAPICalls ==
    {getAllTasks(opts) : opts \in OptionSet}
    \cup {getAssignedTasks, getCreatedTasks, getOverdueTasks}
    \cup {[api |-> "getTaskById", id |-> id] : id \in TaskIds}
    \cup {createTask(submitData(data)) : data \in FormInputs}
    \cup {updateTask(id, [status |-> s]) : id \in TaskIds, s \in StatusValues}
    \cup {deleteTask(id) : id \in TaskIds}
apiClientCalls == authAPICalls \cup userAPICalls \cup taskAPICalls

\* The calls made with fetch(url, { credentials: 'include' }).
fetchCalls ==
    {[site |-> "useAuth.checkAuth", method |-> "GET", url |-> "/api/users/me"],
     [site |-> "useAuth.logout", method |-> "POST", url |-> "/api/auth/logout"],
     [site |-> "RegisterPage.checkAuth", method |-> "GET", url |-> "/api/users/me"],
     [site |-> "LoginPage.checkAuth", method |-> "GET", url |-> "/api/users/me"]}

\* `Bearer ${token}`
Bearer(stored) == "Bearer " \o stored

\* apiClient.interceptors.request.use: the first build reads the token from
\* localStorage and sets Authorization when there is one; the second
\* build returns the config as it is.
requestInterceptor(b, stored, headers) ==
    IF b = "src" /\ stored # Null
    THEN [headers EXCEPT !.Authorization = Bearer(stored)]
    ELSE headers

\* axios.create({ baseURL, timeout: 10000, withCredentials: true })
apiClientSend(b, stored, request) ==
    [request |-> request, headers |-> requestInterceptor(b, stored, NoHeaders),
     withCredentials |-> TRUE]

\* fetch(url, { method, credentials: 'include' }): no headers are given.
fetchSend(request) ==
    [request |-> request, headers |-> NoHeaders, withCredentials |-> TRUE]

CallApiClient(request) ==
    /\ last' = [kind |-> "request", via |-> "apiClient",
                sent |-> apiClientSend(build, token, request)]
    /\ UNCHANGED <<token, build>>

CallFetch(request) ==
    /\ last' = [kind |-> "request", via |-> "fetch", sent |-> fetchSend(request)]
    /\ UNCHANGED <<token, build>>

(***************************************************************************)
(* Specification of the outbound calls: either build, with or without a    *)
(* token in localStorage, making any of its calls.                         *)
(***************************************************************************)
requestRest == <<viewVars, channelVars, patch, loadBase, componentVars,
                 sessionVars, noticeVars, track>>

InitRequests ==
    /\ tasks = <<>>
    /\ isLoading = TRUE
    /\ error = Null
    /\ options = [filter |-> "all", status |-> NoValue, priority |-> NoValue,
                  sortBy |-> "dueDate"]
    /\ inflight = FetchCalls(options)
    /\ route = "/"
    /\ last = [kind |-> "loadStart", options |-> options, issued |-> FetchCalls(options)]
    /\ patch = NoPatch
    /\ loadBase = NoBase
    /\ ChannelInit
    /\ ComponentInit
    /\ SessionInit
    /\ notifications = <<>>
    /\ timers = {}
    /\ track = NoTrack
    /\ token \in Tokens
    /\ build \in Builds

NextRequests ==
    \/ \E request \in apiClientCalls : CallApiClient(request) /\ UNCHANGED requestRest
    \/ \E request \in fetchCalls : CallFetch(request) /\ UNCHANGED requestRest

SpecRequests == InitRequests /\ [][NextRequests]_vars

(***************************************************************************)
(* C23: every outbound REST call carries the bearer credential header      *)
(* whenever a token is cached locally, and always includes the browser's   *)
(* credentials.                                                            *)
(***************************************************************************)
C23_CallsCarryCredentials ==
    last.kind = "request" =>
        /\ last.sent.withCredentials
        /\ token # Null => last.sent.headers.Authorization = Bearer(token)

\* What does hold: every call includes the browser's credentials, and the
\* calls of the first build that go through apiClient carry the token.
ApiClientCallsCarryCredentials ==
    last.kind = "request" =>
        /\ last.sent.withCredentials
        /\ (token # Null /\ build = "src" /\ last.via = "apiClient")
              => last.sent.headers.Authorization = Bearer(token)

(***************************************************************************)
(* C24: channel failures never reach the presentation layer: whatever the  *)
(* channel's state, a call of an emit function, of an on function or of    *)
(* closeSocket throws nothing and leaves the view's state as it is; while  *)
(* the module holds no instance an emit sends nothing, and closeSocket     *)
(* with no instance held changes nothing.                                  *)
(***************************************************************************)
C24_ChannelCallsAreSafe ==
    [][(last'.kind \in {"emit", "on", "closeSocket"}) =>
          /\ ~last'.threw
          /\ UNCHANGED viewVars
          /\ (last'.kind = "emit" /\ socket = 0) => last'.emitted = <<>>
          /\ (last'.kind = "closeSocket" /\ socket = 0) => UNCHANGED channelVars]_vars

\* closeSocket was called while the module held no instance.
C24_Witness ==
    /\ last.kind = "closeSocket"
    /\ ~last.held
    /\ socket = 0

\* An emit while the instance is still connecting, one with no instance.
EmitWhileConnecting ==
    /\ last.kind = "emit"
    /\ socket # 0
    /\ transports[socket].state = "connecting"
    /\ last.emitted # <<>>

EmitWithNoInstance ==
    /\ last.kind = "emit"
    /\ socket = 0
    /\ last.emitted = <<>>
    /\ ~last.threw

(***************************************************************************)
(* C28: the loading flag covers every load in flight: while at least one   *)
(* load was issued and has not completed isLoading is true, and once every *)
(* load has completed, with success or failure, it is false.               *)
(***************************************************************************)
C28_LoadingCoversLoads ==
    /\ inflight # EmptyBag => isLoading
    /\ inflight = EmptyBag => ~isLoading

\* What holds: with nothing in flight the flag is false.
LoadingFalseWhenIdle == inflight = EmptyBag => ~isLoading

(***************************************************************************)
(* The listings as the remote store answers them: a task carries its       *)
(* status and its assignee, and a listing holds only tasks of the view it  *)
(* was asked for. The views explored are 'all', 'all' with a status and    *)
(* 'assigned'; the tasks differ in their assignee, so 'assigned' is the    *)
(* view that leaves tasks out.                                             *)
(***************************************************************************)
CurrentUser == 1
ScopedTasks == [id : TaskIds, status : {"To Do"}, assignedTo : UserIds]

ScopedOptions ==
    [filter : {"all", "assigned"}, status : {NoValue}, priority : {NoValue},
     sortBy : {"dueDate"}]
    \cup [filter : {"all"}, status : {"To Do"}, priority : {NoValue},
          sortBy : {"dueDate"}]

\* Whether the remote store lists the task in the answer to the request.
RequestMatches(request, t) ==
    IF request.endpoint = "/api/tasks/dashboard/assigned"
    THEN t.assignedTo = CurrentUser
    ELSE \A q \in request.query : q[1] = "status" => t.status = q[2]

\* Whether the task belongs to the view the options select.
Belongs(opts, t) == \A r \in BagToSet(FetchCalls(opts)) : RequestMatches(r, t)

ScopedBodies(request) ==
    [hasData : {TRUE},
     data : {s \in SeqsUpTo(ScopedTasks, MaxResult) :
                DistinctIds(s) /\ \A i \in 1..Len(s) : RequestMatches(request, s[i])}]

\* History of a switch of the view made while the load of the previous
\* view was the only one in flight: the two requests and the order in which
\* they were answered.
Race(a, b) == [kind |-> "race", a |-> a, b |-> b, got |-> <<>>]

TheRequest(opts) == CHOOSE r \in BagToSet(FetchCalls(opts)) : TRUE

ScopedChange(opts) ==
    /\ ChangeOptions(opts)
    /\ track' = IF inflight = FetchCalls(options) /\ FetchCalls(opts) # inflight
                THEN Race(TheRequest(options), TheRequest(opts))
                ELSE NoTrack

ScopedRefresh == Refresh /\ track' = NoTrack

ScopedLoadSucceeds(request, body) ==
    /\ LoadSucceeds(request, body)
    /\ track' = IF track.kind = "race"
                THEN [track EXCEPT !.got = Append(@, request)]
                ELSE track

ScopedLoadFails(request, failure, signals) ==
    /\ LoadFails(request, failure, signals)
    /\ track' = NoTrack

(***************************************************************************)
(* Specification of the Task View Model against a remote store that        *)
(* answers each listing with tasks of the view asked for.                  *)
(***************************************************************************)
scopedRest == <<channelVars, patch, loadBase, componentVars, sessionVars,
                noticeVars, requestVars>>

InitScoped ==
    /\ tasks = <<>>
    /\ isLoading = TRUE
    /\ error = Null
    /\ options \in ScopedOptions
    /\ inflight = FetchCalls(options)
    /\ route = "/"
    /\ last = [kind |-> "loadStart", options |-> options, issued |-> FetchCalls(options)]
    /\ patch = NoPatch
    /\ loadBase = NoBase
    /\ ChannelInit
    /\ ComponentInit
    /\ SessionInit
    /\ AuxInit

NextScoped ==
    \/ \E opts \in ScopedOptions : ScopedChange(opts) /\ UNCHANGED scopedRest
    \/ ScopedRefresh /\ UNCHANGED scopedRest
    \/ \E request \in BagToSet(inflight) : \E body \in ScopedBodies(request) :
            ScopedLoadSucceeds(request, body) /\ UNCHANGED scopedRest
    \/ \E request \in BagToSet(inflight), failure \in Failures,
          signals \in SUBSET {"window.location"} :
            ScopedLoadFails(request, failure, signals) /\ UNCHANGED scopedRest
    \/ \E u \in ScopedTasks : OnTaskUpdated(u) /\ UNCHANGED <<scopedRest, track>>
    \/ \E t \in ScopedTasks : OnTaskCreated(t) /\ UNCHANGED <<scopedRest, track>>
    \/ \E id \in TaskIds : OnTaskDeleted(id) /\ UNCHANGED <<scopedRest, track>>
    \/ \E opts \in ScopedOptions :
            Mount(opts) /\ track' = NoTrack /\ UNCHANGED scopedRest

SpecScoped == InitScoped /\ [][NextScoped]_vars

(***************************************************************************)
(* C25: loads have no generation guard: when the view was switched from A  *)
(* to B while the load for A was in flight and the response for A arrives  *)
(* after the response for B, the collection is then A's result while the   *)
(* selected view is B.                                                     *)
(***************************************************************************)
RaceLost == track.kind = "race" /\ track.got = <<track.b, track.a>>

C25_LateResponseWins ==
    (RaceLost /\ last.kind = "loadOk") =>
        /\ tasks = ResponseData(last.body)
        /\ \A i \in 1..Len(tasks) : RequestMatches(track.a, tasks[i])
        /\ FetchCalls(options) = SetToBag({track.b})
        /\ inflight = EmptyBag

\* The state is reached, and the collection shown holds a task that is not
\* of the selected view.
C25_Witness ==
    /\ RaceLost
    /\ last.kind = "loadOk"
    /\ inflight = EmptyBag
    /\ \E i \in 1..Len(tasks) : ~Belongs(options, tasks[i])

(***************************************************************************)
(* C29: the collection stays scoped to the selected view: whenever no load *)
(* is in flight, every entry of the collection belongs to the view the     *)
(* options select, also after task-created and task-updated events.        *)
(***************************************************************************)
C29_CollectionScoped ==
    (route = "/" /\ inflight = EmptyBag) =>
        \A i \in 1..Len(tasks) : Belongs(options, tasks[i])

(***************************************************************************)
(* A create in this session (TaskForm onSubmit, create path): after        *)
(* createTask succeeded the form calls onTaskCreated, Home's               *)
(* handleTaskCreated calls mutate(), and the task-created event of the     *)
(* same task may reach this session's handler.                             *)
(***************************************************************************)
\* History of the create: the task as stored, and what has happened since.
Created(t) == [kind |-> "create", task |-> t, order |-> <<>>]

\* The listings the remote store gives once it holds the task: the task is
\* in the listing exactly when it is of the view asked for.
BodiesWith(request, t) ==
    {b \in ScopedBodies(request) :
        /\ \A i \in 1..Len(b.data) : b.data[i].id = t.id => b.data[i] = t
        /\ RequestMatches(request, t) => \E i \in 1..Len(b.data) : b.data[i] = t}

\* createTask resolved: onTaskCreated?.() -> handleTaskCreated -> mutate()
CreateSucceeds(t) ==
    /\ track.kind = "none"
    /\ inflight = EmptyBag
    /\ Refresh
    /\ track' = Created(t)

\* The reload started by mutate() resolves.
ReloadSucceeds(body) ==
    /\ track.kind = "create"
    /\ LoadSucceeds(TheRequest(options), body)
    /\ track' = [track EXCEPT !.order = Append(@, "reload")]

\* The reload started by mutate() rejects.
ReloadFails(failure, signals) ==
    /\ track.kind = "create"
    /\ LoadFails(TheRequest(options), failure, signals)
    /\ track' = [track EXCEPT !.order = Append(@, "reloadFailed")]

\* The task-created event of the task reaches this session.
Echo ==
    /\ track.kind = "create"
    /\ \A i \in 1..Len(track.order) : track.order[i] # "echo"
    /\ OnTaskCreated(track.task)
    /\ track' = [track EXCEPT !.order = Append(@, "echo")]

(***************************************************************************)
(* Specification of a create: a loaded view, one create, its reload and    *)
(* its event in either order.                                              *)
(***************************************************************************)
InitCreate ==
    /\ options \in ScopedOptions
    /\ tasks \in {s \in SeqsUpTo(ScopedTasks, MaxResult) :
                    /\ DistinctIds(s)
                    /\ \A i \in 1..Len(s) : s[i].id # NewTaskId /\ Belongs(options, s[i])}
    /\ isLoading = FALSE
    /\ error = Null
    /\ inflight = EmptyBag
    /\ route = "/"
    /\ last = [kind |-> "loadOk", body |-> [hasData |-> TRUE, data |-> tasks],
               dropped |-> FALSE]
    /\ patch = NoPatch
    /\ loadBase = NoBase
    /\ ChannelInit
    /\ ComponentInit
    /\ SessionInit
    /\ AuxInit

NextCreate ==
    \/ \E t \in {c \in ScopedTasks : c.id = NewTaskId} :
            CreateSucceeds(t) /\ UNCHANGED scopedRest
    \/ /\ track.kind = "create"
       /\ \E body \in BodiesWith(TheRequest(options), track.task) :
            ReloadSucceeds(body) /\ UNCHANGED scopedRest
    \/ \E failure \in Failures, signals \in SUBSET {"window.location"} :
            ReloadFails(failure, signals) /\ UNCHANGED scopedRest
    \/ Echo /\ UNCHANGED scopedRest

SpecCreate == InitCreate /\ [][NextCreate]_vars

(***************************************************************************)
(* C26: a single create can be inserted twice in the creating session:     *)
(* when the task-created event is applied after the reload succeeded the   *)
(* collection holds the task twice, and when it is applied before, the     *)
(* reload's replacement leaves it once; this for a task that is of the     *)
(* view shown. A task that is not of the view shown is not in the reload's *)
(* listing: it is held once when the event comes after the reload and not  *)
(* at all when the event came before it.                                   *)
(***************************************************************************)
Count(ts, id) == Cardinality({i \in DOMAIN ts : ts[i].id = id})

CreatedInView == RequestMatches(TheRequest(options), track.task)

C26_DoubleInsert ==
    track.kind = "create" =>
        /\ track.order = <<"reload", "echo">> =>
              Count(tasks, track.task.id) = IF CreatedInView THEN 2 ELSE 1
        /\ track.order = <<"echo", "reload">> =>
              Count(tasks, track.task.id) = IF CreatedInView THEN 1 ELSE 0

\* The claim as stated, for every create.
C26_Original ==
    track.kind = "create" =>
        /\ track.order = <<"reload", "echo">> => Count(tasks, track.task.id) = 2
        /\ track.order = <<"echo", "reload">> => Count(tasks, track.task.id) = 1

\* The event came after the reload and the task is held twice.
C26_Witness ==
    /\ track.kind = "create"
    /\ track.order = <<"reload", "echo">>
    /\ Count(tasks, track.task.id) = 2

\* The event came before the reload and the task is held once.
EchoThenReloadHoldsOne ==
    /\ track.kind = "create"
    /\ track.order = <<"echo", "reload">>
    /\ Count(tasks, track.task.id) = 1

(***************************************************************************)
(* C27: the userId announced when the module's instance connects or        *)
(* reconnects is the session's current one: after initSocket(u1) and then  *)
(* initSocket(u2) on the connected instance, every later connect of that   *)
(* instance emits user-join with u2.                                       *)
(***************************************************************************)
C27_ConnectAnnouncesCurrentUser ==
    [][(last'.kind = "connect" /\ last'.transport = socket) =>
            last'.emitted = <<UserJoin(socket, sessionUser)>>]_vars

\* What holds: a connect announces the userId the instance was made with.
ConnectAnnouncesFirstUser ==
    [][(last'.kind = "connect" /\ last'.transport = socket) =>
            last'.emitted = <<UserJoin(socket, transports[socket].userId)>>]_vars

(***************************************************************************)
(* The components with their requests settling: apiClient is made with     *)
(* timeout: 10000, so every request resolves or rejects, hence the weak    *)
(* fairness of the steps that complete a request.                          *)
(***************************************************************************)
componentRest == <<viewVars, channelVars, patch, loadBase, sessionVars, auxVars>>

ItemUpdateSettles ==
    (ItemUpdateSucceeds \/ \E failure \in Failures : ItemUpdateFails(failure))
        /\ UNCHANGED componentRest
ItemDeleteSettles ==
    (ItemDeleteSucceeds \/ \E failure \in Failures : ItemDeleteFails(failure))
        /\ UNCHANGED componentRest
FormWriteSettles ==
    (FormWriteSucceeds(NewTaskId) \/ \E failure \in Failures : FormWriteFails(failure))
        /\ UNCHANGED componentRest
PageCallSettles ==
    (PageCallSucceeds \/ \E failure \in Failures : PageCallFails(failure))
        /\ UNCHANGED componentRest

SpecComponentsSettle ==
    /\ InitComponents
    /\ [][NextComponents]_vars
    /\ WF_vars(ItemUpdateSettles)
    /\ WF_vars(ItemDeleteSettles)
    /\ WF_vars(FormWriteSettles)
    /\ WF_vars(PageCallSettles)

(***************************************************************************)
(* C30: busy flags are always released: isLoading of the task form and of  *)
(* the register and login pages, isUpdating and isDeleting of the task     *)
(* item are set exactly while the handler's request is awaited, so they    *)
(* are false after a validation failure with its early return, after a     *)
(* remote success and after a remote failure; none stays set forever.      *)
(***************************************************************************)
BusyOnlyWhileAwaiting ==
    /\ item.isUpdating <=> (item.update # NoRequest)
    /\ item.isDeleting <=> (item.delete # NoRequest)
    /\ form.isLoading <=> (form.request # NoRequest)
    /\ page.isLoading <=> (page.request # NoRequest)

C30_BusyFlagsReleased ==
    /\ []BusyOnlyWhileAwaiting
    /\ item.isUpdating ~> ~item.isUpdating
    /\ item.isDeleting ~> ~item.isDeleting
    /\ form.isLoading ~> ~form.isLoading
    /\ page.isLoading ~> ~page.isLoading

\* A submission of the task form ended at the validation's early return and
\* the form's flag is false.
C30_Witness ==
    /\ last.kind = "formInvalid"
    /\ ~form.isLoading
    /\ form.open

\* The other paths: a page's early return, a remote failure of each.
PageReleasedAfterReturn == last.kind = "pageInvalid" /\ ~page.isLoading
ItemReleasedAfterFailure ==
    last.kind = "itemWriteFail" /\ ~item.isUpdating /\ ~item.isDeleting
FormReleasedAfterFailure == last.kind = "formWriteFail" /\ ~form.isLoading
PageReleasedAfterFailure == last.kind = "pageFail" /\ ~page.isLoading

====
